---- MODULE Spec2Model ----
(***************************************************************************)
(* Calendar-AI command-understanding core: the deterministic (regex)       *)
(* extractor, the generative (LLM) extractor, the parser factory with its  *)
(* fallback, the intent validator, the parsing facade and the command      *)
(* handler that maps a validated command to Calendar Store calls.          *)
(*                                                                         *)
(* Command texts are TLA+ strings; the regular expressions of the source   *)
(* are written as syntax trees and run by a backtracking matcher with the  *)
(* semantics of the JavaScript engine (leftmost start, alternatives in     *)
(* order, greedy or lazy repetition).  Instants are integers, in minutes.  *)
(***************************************************************************)
EXTENDS Integers, Sequences, FiniteSets, TLC

----------------------------------------------------------------------------
(* Strings                                                                 *)

Digits == {"0", "1", "2", "3", "4", "5", "6", "7", "8", "9"}
LowerLetters == {"a", "b", "c", "d", "e", "f", "g", "h", "i", "j", "k", "l", "m",
                 "n", "o", "p", "q", "r", "s", "t", "u", "v", "w", "x", "y", "z"}
UpperLetters == {"A", "B", "C", "D", "E", "F", "G", "H", "I", "J", "K", "L", "M",
                 "N", "O", "P", "Q", "R", "S", "T", "U", "V", "W", "X", "Y", "Z"}
UpperSeq == "ABCDEFGHIJKLMNOPQRSTUVWXYZ"
LowerSeq == "abcdefghijklmnopqrstuvwxyz"
\* \w, \s and . of the regular expressions (the /i flag folds case before the test)
WordChars == LowerLetters \cup Digits \cup {"_"}
SpaceChars == {" ", "\t", "\n"}
NewLine == {"\n"}

LowerOf(c) ==
  IF c \in UpperLetters
  THEN LET i == CHOOSE j \in 1..Len(UpperSeq) : SubSeq(UpperSeq, j, j) = c
       IN SubSeq(LowerSeq, i, i)
  ELSE c

RECURSIVE toLowerCase(_)
toLowerCase(s) ==
  IF s = "" THEN "" ELSE LowerOf(SubSeq(s, 1, 1)) \o toLowerCase(SubSeq(s, 2, Len(s)))

RECURSIVE IndexFrom(_, _, _)
\* the first index >= i at which sub occurs in s, 0 when it does not
IndexFrom(s, sub, i) ==
  IF i + Len(sub) - 1 > Len(s) THEN 0
  ELSE IF SubSeq(s, i, i + Len(sub) - 1) = sub THEN i
  ELSE IndexFrom(s, sub, i + 1)

includes(s, sub) == IndexFrom(s, sub, 1) > 0

RECURSIVE trimStart(_), trimEnd(_)
trimStart(s) ==
  IF s # "" /\ SubSeq(s, 1, 1) \in SpaceChars THEN trimStart(SubSeq(s, 2, Len(s))) ELSE s
trimEnd(s) ==
  IF s # "" /\ SubSeq(s, Len(s), Len(s)) \in SpaceChars
  THEN trimEnd(SubSeq(s, 1, Len(s) - 1)) ELSE s
trim(s) == trimEnd(trimStart(s))

endsWith(s, suffix) ==
  Len(s) >= Len(suffix) /\ SubSeq(s, Len(s) - Len(suffix) + 1, Len(s)) = suffix
startsWith(s, prefix) ==
  Len(s) >= Len(prefix) /\ SubSeq(s, 1, Len(prefix)) = prefix

RECURSIVE parseInt(_)
\* parseInt(s, 10) of a string of decimal digits
parseInt(s) ==
  IF s = "" THEN 0
  ELSE 10 * parseInt(SubSeq(s, 1, Len(s) - 1))
       + (CHOOSE d \in 0..9 : SubSeq("0123456789", d + 1, d + 1) = SubSeq(s, Len(s), Len(s)))

----------------------------------------------------------------------------
(* Regular expressions                                                     *)

Lit(s) == [k |-> "lit", s |-> s]
Set(S) == [k |-> "set", set |-> S]
NSet(S) == [k |-> "nset", set |-> S]
Cat(rs) == [k |-> "cat", rs |-> rs]
Alt(rs) == [k |-> "alt", rs |-> rs]
Rep(r, lo, hi) == [k |-> "rep", r |-> r, lo |-> lo, hi |-> hi]
Lazy(r, lo, hi) == [k |-> "lazy", r |-> r, lo |-> lo, hi |-> hi]
Grp(n, r) == [k |-> "grp", n |-> n, r |-> r]
EndOfText == [k |-> "end"]
StartOfText == [k |-> "start"]
Unbounded == -1
Opt(r) == Rep(r, 0, 1)
Star(r) == Rep(r, 0, Unbounded)
Plus(r) == Rep(r, 1, Unbounded)
LazyPlus(r) == Lazy(r, 1, Unbounded)
Words(ws) == Alt([i \in 1..Len(ws) |-> Lit(ws[i])])

NoCaps == <<<<0, 0>>, <<0, 0>>, <<0, 0>>>>

IsClass(r) == r.k \in {"set", "nset"}
InClass(r, c) == IF r.k = "set" THEN LowerOf(c) \in r.set ELSE LowerOf(c) \notin r.set

RECURSIVE RunLength(_, _, _, _)
\* how many characters of s from position i on belong to class r, up to max (-1: no limit)
RunLength(r, s, i, max) ==
  IF max = 0 \/ i > Len(s) \/ ~InClass(r, SubSeq(s, i, i)) THEN 0
  ELSE 1 + RunLength(r, s, i + 1, IF max < 0 THEN max ELSE max - 1)

RECURSIVE M(_, _, _, _), MCat(_, _, _, _, _), MAlt(_, _, _, _, _),
          MRep(_, _, _, _, _, _), MLazy(_, _, _, _, _, _), Bind(_, _, _, _, _, _, _, _)
\* every way regex r matches s from position i, in the order the engine tries them
M(r, s, i, caps) ==
  CASE r.k = "lit" ->
         IF i + Len(r.s) - 1 <= Len(s) /\ toLowerCase(SubSeq(s, i, i + Len(r.s) - 1)) = r.s
         THEN <<[pos |-> i + Len(r.s), caps |-> caps]>> ELSE <<>>
    [] IsClass(r) ->
         IF i <= Len(s) /\ InClass(r, SubSeq(s, i, i))
         THEN <<[pos |-> i + 1, caps |-> caps]>> ELSE <<>>
    [] r.k = "cat" -> MCat(r.rs, 1, s, i, caps)
    [] r.k = "alt" -> MAlt(r.rs, 1, s, i, caps)
    [] r.k = "rep" ->
         IF IsClass(r.r)
         THEN LET n == RunLength(r.r, s, i, r.hi)
              IN IF n < r.lo THEN <<>>
                 ELSE [j \in 1..(n - r.lo + 1) |-> [pos |-> i + n - j + 1, caps |-> caps]]
         ELSE MRep(r.r, r.lo, r.hi, s, i, caps)
    [] r.k = "lazy" ->
         IF IsClass(r.r)
         THEN LET n == RunLength(r.r, s, i, r.hi)
              IN IF n < r.lo THEN <<>>
                 ELSE [j \in 1..(n - r.lo + 1) |-> [pos |-> i + r.lo + j - 1, caps |-> caps]]
         ELSE MLazy(r.r, r.lo, r.hi, s, i, caps)
    [] r.k = "grp" ->
         LET inner == M(r.r, s, i, caps)
         IN [j \in 1..Len(inner) |->
               [pos |-> inner[j].pos,
                caps |-> [inner[j].caps EXCEPT ![r.n] = <<i, inner[j].pos>>]]]
    [] r.k = "end" -> IF i = Len(s) + 1 THEN <<[pos |-> i, caps |-> caps]>> ELSE <<>>
    [] r.k = "start" -> IF i = 1 THEN <<[pos |-> i, caps |-> caps]>> ELSE <<>>

\* continue each way ms[lo..hi], in order, with the rest of a sequence or repetition
Bind(ms, lo, hi, kind, a, b, c, s) ==
  IF lo > hi THEN <<>>
  ELSE IF lo = hi
  THEN CASE kind = "cat" -> MCat(a, b, s, ms[lo].pos, ms[lo].caps)
         [] kind = "rep" -> MRep(a, b, c, s, ms[lo].pos, ms[lo].caps)
         [] kind = "lazy" -> MLazy(a, b, c, s, ms[lo].pos, ms[lo].caps)
  ELSE LET mid == (lo + hi) \div 2
       IN Bind(ms, lo, mid, kind, a, b, c, s) \o Bind(ms, mid + 1, hi, kind, a, b, c, s)

MCat(rs, n, s, i, caps) ==
  IF n > Len(rs) THEN <<[pos |-> i, caps |-> caps]>>
  ELSE LET ms == M(rs[n], s, i, caps) IN Bind(ms, 1, Len(ms), "cat", rs, n + 1, 0, s)

MAlt(rs, n, s, i, caps) ==
  IF n > Len(rs) THEN <<>> ELSE M(rs[n], s, i, caps) \o MAlt(rs, n + 1, s, i, caps)

Advancing(ms, i) == SelectSeq(ms, LAMBDA m : m.pos > i)
Less(n) == IF n <= 0 THEN n ELSE n - 1

MRep(r, lo, hi, s, i, caps) ==
  IF hi = 0 THEN <<[pos |-> i, caps |-> caps]>>
  ELSE LET ms == Advancing(M(r, s, i, caps), i)
       IN Bind(ms, 1, Len(ms), "rep", r, Less(lo), Less(hi), s)
          \o (IF lo = 0 THEN <<[pos |-> i, caps |-> caps]>> ELSE <<>>)

MLazy(r, lo, hi, s, i, caps) ==
  IF hi = 0 THEN <<[pos |-> i, caps |-> caps]>>
  ELSE LET ms == Advancing(M(r, s, i, caps), i)
       IN (IF lo = 0 THEN <<[pos |-> i, caps |-> caps]>> ELSE <<>>)
          \o Bind(ms, 1, Len(ms), "lazy", r, Less(lo), Less(hi), s)

NoMatch == [found |-> FALSE, start |-> 0, pos |-> 0, caps |-> NoCaps]

RECURSIVE SearchFrom(_, _, _)
SearchFrom(r, s, i) ==
  IF i > Len(s) + 1 THEN NoMatch
  ELSE LET ms == M(r, s, i, NoCaps)
       IN IF Len(ms) > 0
          THEN [found |-> TRUE, start |-> i, pos |-> ms[1].pos, caps |-> ms[1].caps]
          ELSE SearchFrom(r, s, i + 1)

\* a call by name of code many callers share: one entry into the regular-expression engine
\* and into each extractor, through which every use of them goes
RECURSIVE Invoke(_, _)
\* s.match(r) for a regex without /g: the leftmost match
match(s, r) == Invoke("RegExp.exec", <<r, s, 1>>)
\* r.test(s)
test(r, s) == match(s, r).found
\* m[0] and m[n] of a match m on s ("" for a group that did not take part)
Whole(s, m) == SubSeq(s, m.start, m.pos - 1)
HasGroup(m, n) == m.caps[n][1] > 0
Group(s, m, n) == IF HasGroup(m, n) THEN SubSeq(s, m.caps[n][1], m.caps[n][2] - 1) ELSE ""
\* s.replace(r, '') for a regex without /g
replaceFirst(s, r) ==
  LET m == match(s, r)
  IN IF m.found THEN SubSeq(s, 1, m.start - 1) \o SubSeq(s, m.pos, Len(s)) ELSE s

RECURSIVE replaceAll(_, _, _)
\* s.replace(r, '') for a regex with /g, scanning from position i
replaceAll(s, r, i) ==
  LET m == Invoke("RegExp.exec", <<r, s, i>>)
  IN IF ~m.found THEN s
     ELSE IF m.pos = m.start THEN (IF m.start > Len(s) THEN s ELSE replaceAll(s, r, m.start + 1))
     ELSE replaceAll(SubSeq(s, 1, m.start - 1) \o SubSeq(s, m.pos, Len(s)), r, m.start)

----------------------------------------------------------------------------
(* RegexParser.PATTERNS                                                    *)

Digit12 == Rep(Set(Digits), 1, 2)
DaysUnit == Cat(<<Lit("giorn"), Set({"o", "i"})>>)
WeeksUnit == Cat(<<Lit("settiman"), Set({"a", "e"})>>)
MonthsUnit == Cat(<<Lit("mes"), Set({"e", "i"})>>)
WeekdayNames == <<"lunedì", "martedì", "mercoledì", "giovedì", "venerdì", "sabato", "domenica">>

PATTERNS_CREATE ==
  Words(<<"crea", "aggiungi", "nuovo", "pianifica", "programma", "organizza", "fissa", "inserisci">>)
PATTERNS_READ ==
  Words(<<"mostra", "visualizza", "vedi", "dammi", "elenca", "trova", "cerca", "quali", "quando">>)
PATTERNS_UPDATE ==
  Words(<<"modifica", "aggiorna", "cambia", "sposta", "posticipa", "anticipa", "rinvia", "rinomina">>)
PATTERNS_DELETE ==
  Words(<<"elimina", "cancella", "rimuovi", "togli", "rimuoviamo", "eliminiamo">>)
PATTERNS_DATE ==
  Alt(<<Lit("oggi"), Lit("domani"), Lit("dopodomani"), Lit("ieri"), Lit("l'altro ieri"),
        Words(WeekdayNames),
        Cat(<<Lit("prossim"), Set({"a", "o"})>>), Cat(<<Lit("successiv"), Set({"a", "o"})>>),
        Cat(<<Lit("quest"), Set({"a", "o"})>>), Lit("scorso"), Cat(<<Lit("scors"), Set({"a", "o"})>>),
        Cat(<<Lit("il "), Digit12>>),
        Cat(<<Digit12, Lit("/"), Digit12, Opt(Cat(<<Lit("/"), Rep(Set(Digits), 2, 4)>>))>>)>>)
PATTERNS_TIME ==
  Cat(<<Opt(Alt(<<Lit("alle"), Lit("ore"), Lit("alle ore")>>)), Star(Set(SpaceChars)),
        Digit12, Opt(Cat(<<Lit(":"), Rep(Set(Digits), 2, 2)>>)),
        Star(Set(SpaceChars)), Opt(Alt(<<Lit("am"), Lit("pm")>>))>>)
PATTERNS_DURATION ==
  Cat(<<Lit("per "), Grp(1, Plus(Set(Digits))), Lit(" "),
        Grp(2, Alt(<<Cat(<<Lit("minut"), Set({"o", "i"})>>), Cat(<<Lit("or"), Set({"a", "e"})>>),
                     DaysUnit>>))>>)
PATTERNS_RECURRENCE ==
  Cat(<<Lit("ogni "), Grp(1, Alt(<<Lit("giorno"), Lit("settimana"), Lit("mese"), Words(WeekdayNames)>>))>>)
PATTERNS_PARTICIPANTS ==
  Cat(<<Lit("con "), Grp(1, Plus(Set(WordChars \cup SpaceChars \cup {","})))>>)
PATTERNS_LOCATION ==
  Cat(<<Alt(<<Lit("a"), Lit("presso"), Lit("in")>>), Lit(" "), Grp(1, Plus(NSet({",", "."})))>>)
PATTERNS_RELATIVE_DATE ==
  Cat(<<Alt(<<Lit("tra"), Lit("dopo"), Lit("fra")>>), Lit(" "), Grp(1, Plus(Set(Digits))), Lit(" "),
        Grp(2, Alt(<<DaysUnit, WeeksUnit, MonthsUnit>>))>>)
InThe == Opt(Cat(<<Lit("nell"), Opt(Set({"'", "a"})), Plus(Set(SpaceChars))>>))
PATTERNS_RELATIVE_TIME_PAST ==
  Cat(<<InThe, Lit("ultim"), Set({"a", "o"}), Lit(" "), Grp(1, Plus(Set(Digits))), Lit(" "),
        Grp(2, Alt(<<DaysUnit, WeeksUnit, MonthsUnit>>))>>)
ArticleTail == Opt(Grp(1, Cat(<<Lit("l"), Opt(Grp(2, Cat(<<Lit("l"), Set({"'", "a"})>>)))>>)))
PATTERNS_TIME_RANGE_START ==
  Cat(<<Lit("da"), ArticleTail, Lit(" "), Grp(3, Plus(Set(WordChars \cup SpaceChars \cup {"/"})))>>)
PATTERNS_TIME_RANGE_END ==
  Cat(<<Opt(Lit("fino ")), Lit("a"), ArticleTail, Lit(" "),
        Grp(3, Plus(Set(WordChars \cup SpaceChars \cup {"/"})))>>)
PATTERNS_TIME_RANGE_NEXT ==
  Cat(<<Lit("prossim"), Set({"a", "o"}), Lit(" "),
        Grp(1, Alt(<<Lit("settimana"), Lit("mese"), Lit("anno")>>))>>)
PATTERNS_TIME_RANGE_LAST ==
  Cat(<<InThe, Lit("ultim"), Set({"a", "o"}), Lit(" "),
        Grp(1, Alt(<<Lit("settimana"), Lit("mese"), Lit("anno")>>))>>)
PATTERNS_QUERY_TERMS ==
  Cat(<<Alt(<<Cat(<<Lit("riguard"), Set({"a", "o"})>>), Lit("su"), Lit("di"),
              Lit("che contiene"), Lit("contenente")>>),
        Lit(" "), Grp(1, Plus(NSet({",", "."})))>>)

----------------------------------------------------------------------------
(* JavaScript values: every value carries its type in field t.  An object  *)
(* carries every property of its shape, Undefined standing for an absent   *)
(* one.                                                                    *)

Null == [t |-> "null"]
Undefined == [t |-> "undefined"]
Str(s) == [t |-> "string", s |-> s]
Num(n) == [t |-> "number", n |-> n]
DateOf(m) == [t |-> "date", valid |-> TRUE, at |-> m]
InvalidDate == [t |-> "date", valid |-> FALSE, at |-> 0]
Bool(b) == [t |-> "boolean", b |-> b]
Arr(items) == [t |-> "array", items |-> items]
\* !!v
Truthy(v) ==
  CASE v.t \in {"null", "undefined"} -> FALSE
    [] v.t = "string" -> v.s # ""
    [] v.t = "number" -> v.n # 0
    [] v.t = "boolean" -> v.b
    [] OTHER -> TRUE
IsNullish(v) == v.t \in {"null", "undefined"}
\* a || b
OrElse(a, b) == IF Truthy(a) THEN a ELSE b
\* a destructuring or parameter default: only undefined takes it
Default(a, b) == IF a.t = "undefined" THEN b ELSE a

\* the outcome of a step that can raise: threw with the error's message, or a value
Ok(v) == [threw |-> FALSE, message |-> "", value |-> v]
Raise(message) == [threw |-> TRUE, message |-> message, value |-> Null]
TypeError == "TypeError"
RangeError == "Invalid time value"

----------------------------------------------------------------------------
(* Dates: an instant is a number of minutes since 00:00 of day 0, the 1st  *)
(* of January of EpochYear; the calendar has months of DaysPerMonth days.  *)

MinutesPerHour == 60
HoursPerDay == 24
MinutesPerDay == MinutesPerHour * HoursPerDay
DaysPerWeek == 7
MonthsPerYear == 12
DaysPerMonth == 30
EpochYear == 2025
\* weekday of day 0 (0 = Sunday): 1 January 2025 is a Wednesday
EpochWeekday == 3
NoonHour == 12

DayOf(at) == at \div MinutesPerDay
TimeOfDay(at) == at % MinutesPerDay
getHours(at) == TimeOfDay(at) \div MinutesPerHour
getMinutes(at) == TimeOfDay(at) % MinutesPerHour
getDay(at) == (EpochWeekday + DayOf(at)) % DaysPerWeek
\* 0-based month since the epoch, 1-based day of the month
MonthOf(at) == DayOf(at) \div DaysPerMonth
getDate(at) == (DayOf(at) % DaysPerMonth) + 1
MakeDate(month, dayOfMonth, timeOfDay) ==
  (month * DaysPerMonth + dayOfMonth - 1) * MinutesPerDay + timeOfDay
addDays(at, n) == at + n * MinutesPerDay
\* date.setHours(h, m, 0, 0)
setHours(at, h, m) == DayOf(at) * MinutesPerDay + h * MinutesPerHour + m
\* date.setHours(23, 59, 59, 999)
endOfDay(at) == DayOf(at) * MinutesPerDay + (MinutesPerDay - 1)
\* date.setDate(d) and date.setMonth(getMonth() + n)
setDate(at, d) == MakeDate(MonthOf(at), d, TimeOfDay(at))
addMonths(at, n) == MakeDate(MonthOf(at) + n, getDate(at), TimeOfDay(at))
addYears(at, n) == addMonths(at, n * MonthsPerYear)

----------------------------------------------------------------------------
(* CommandSchema                                                           *)

Intents == {"create", "read", "update", "delete", "query"}
DefaultLimit == 10
\* confidences are counted in hundredths: FullConfidence is 1.0
FullConfidence == 100

DefaultEventData ==
  [t |-> "object", title |-> Null, description |-> Null, location |-> Null,
   participants |-> Arr(<<>>)]
DefaultTimeData ==
  [t |-> "object", startDate |-> Null, startTime |-> Null, endDate |-> Null, endTime |-> Null,
   duration |-> Null, recurrence |-> Null]
DefaultQueryData ==
  [t |-> "object", timeRange |-> Null, searchTerm |-> Null, filterType |-> Null,
   limit |-> Num(DefaultLimit)]
TimeRange(start, end) == [t |-> "object", start |-> start, end |-> end]
\* a metadata record that drops the text
ParsingMetadataBlank(method, rawText, ambiguities, missingInfo) ==
  [method |-> method, rawText |-> Str(""), ambiguities |-> ambiguities, missingInfo |-> missingInfo]
ParsingMetadata(method, rawText, ambiguities, missingInfo) ==
  [method |-> method, rawText |-> rawText, ambiguities |-> ambiguities, missingInfo |-> missingInfo]

\* new CommandSchema({...}): an absent (Undefined) argument takes its default
CommandSchema(intent, confidence, eventData, timeData, queryData, parsingMetadata, isValid) ==
  [t |-> "object", intent |-> Default(intent, Null),
   confidence |-> Default(confidence, Num(FullConfidence)),
   eventData |-> Default(eventData, DefaultEventData),
   timeData |-> Default(timeData, DefaultTimeData),
   queryData |-> Default(queryData, DefaultQueryData),
   parsingMetadata |-> [parsingMetadata EXCEPT !.rawText = OrElse(parsingMetadata.rawText, Str(""))],
   isValid |-> isValid]

\* reading property p of container c throws a TypeError when c is null or undefined
Throws(c) == IsNullish(c)
\* a property of a value that is not an object of the schema (a string, a number) is undefined
Prop(c, p) == IF c.t = "object" /\ p \in DOMAIN c THEN c[p] ELSE Undefined

\* CommandSchema.validate(): [threw, value]
SchemaValidate(schema) ==
  IF schema.intent.t # "string" \/ schema.intent.s \notin Intents
  THEN [threw |-> FALSE, value |-> FALSE]
  ELSE IF schema.intent.s \in {"read", "query"}
  THEN IF Throws(schema.queryData) THEN [threw |-> TRUE, value |-> FALSE]
       ELSE [threw |-> FALSE,
             value |-> Truthy(Prop(schema.queryData, "timeRange"))
                       \/ Truthy(Prop(schema.queryData, "searchTerm"))
                       \/ Truthy(Prop(schema.queryData, "filterType"))]
  ELSE IF Throws(schema.eventData) THEN [threw |-> TRUE, value |-> FALSE]
  ELSE IF ~Truthy(Prop(schema.eventData, "title")) THEN [threw |-> FALSE, value |-> FALSE]
  ELSE IF Throws(schema.timeData) THEN [threw |-> TRUE, value |-> FALSE]
  ELSE IF Truthy(Prop(schema.timeData, "startDate")) \/ Truthy(Prop(schema.timeData, "startTime"))
  THEN [threw |-> FALSE, value |-> TRUE]
  ELSE IF schema.intent.s # "update" THEN [threw |-> FALSE, value |-> FALSE]
  ELSE [threw |-> FALSE,
        value |-> Truthy(Prop(schema.eventData, "description"))
                  \/ Truthy(Prop(schema.eventData, "location"))]

----------------------------------------------------------------------------
(* RegexParser, the deterministic extractor                                *)

\* DAYS_MAP, in the order of its keys
DAYS_MAP ==
  <<<<"domenica", 0>>, <<"lunedì", 1>>, <<"lunedi", 1>>, <<"martedì", 2>>, <<"martedi", 2>>,
    <<"mercoledì", 3>>, <<"mercoledi", 3>>, <<"giovedì", 4>>, <<"giovedi", 4>>,
    <<"venerdì", 5>>, <<"venerdi", 5>>, <<"sabato", 6>>>>

RECURRENCE_MAP(unit) ==
  CASE unit = "giorno" -> Str("daily") [] unit = "settimana" -> Str("weekly")
    [] unit = "mese" -> Str("monthly")
    [] unit = "lunedì" -> Str("weekly;BYDAY=MO") [] unit = "martedì" -> Str("weekly;BYDAY=TU")
    [] unit = "mercoledì" -> Str("weekly;BYDAY=WE") [] unit = "giovedì" -> Str("weekly;BYDAY=TH")
    [] unit = "venerdì" -> Str("weekly;BYDAY=FR") [] unit = "sabato" -> Str("weekly;BYDAY=SA")
    [] unit = "domenica" -> Str("weekly;BYDAY=SU")
    [] OTHER -> Null

_getNextDayOfWeek(date, dayOfWeek) ==
  LET resultDate == addDays(date, (DaysPerWeek + dayOfWeek - getDay(date)) % DaysPerWeek)
  IN IF DayOf(resultDate) = DayOf(date) THEN addDays(resultDate, DaysPerWeek) ELSE resultDate

\* date-fns parse(dateStr, 'dd/MM/yyyy' or 'dd/MM', new Date()): the instant, or -1 when invalid
TwoDigits == Rep(Set(Digits), 1, 2)
DateFormatLong ==
  Cat(<<StartOfText, Grp(1, TwoDigits), Lit("/"), Grp(2, TwoDigits), Lit("/"),
        Grp(3, Rep(Set(Digits), 1, 4)), EndOfText>>)
DateFormatShort ==
  Cat(<<StartOfText, Grp(1, TwoDigits), Lit("/"), Grp(2, TwoDigits), EndOfText>>)
ValidDayMonth(d, m) == d >= 1 /\ d <= DaysPerMonth /\ m >= 1 /\ m <= MonthsPerYear
parseLongDate(dateStr) ==
  LET m == match(dateStr, DateFormatLong)
      d == parseInt(Group(dateStr, m, 1))
      mo == parseInt(Group(dateStr, m, 2))
      y == parseInt(Group(dateStr, m, 3))
  IN IF m.found /\ ValidDayMonth(d, mo)
     THEN MakeDate((y - EpochYear) * MonthsPerYear + mo - 1, d, 0) ELSE -1
parseShortDate(dateStr, today) ==
  LET m == match(dateStr, DateFormatShort)
      d == parseInt(Group(dateStr, m, 1))
      mo == parseInt(Group(dateStr, m, 2))
      year == MonthOf(today) \div MonthsPerYear
  IN IF m.found /\ ValidDayMonth(d, mo) THEN MakeDate(year * MonthsPerYear + mo - 1, d, 0) ELSE -1

RECURSIVE FirstDay(_, _)
\* the first entry of DAYS_MAP, from the i-th on, whose name occurs in s; 0 when none does
FirstDay(s, i) ==
  IF i > Len(DAYS_MAP) THEN 0
  ELSE IF includes(s, DAYS_MAP[i][1]) THEN i ELSE FirstDay(s, i + 1)

_parseDateString(dateStr, today) ==
  LET lower == toLowerCase(dateStr)
      day == FirstDay(lower, 1)
      dayMatch == match(dateStr, Cat(<<Lit("il "), Grp(1, TwoDigits)>>))
      onDay == setDate(today, parseInt(Group(dateStr, dayMatch, 1)))
      long == parseLongDate(dateStr)
      short == parseShortDate(dateStr, today)
  IN IF includes(lower, "oggi") THEN today
     ELSE IF includes(lower, "domani") THEN addDays(today, 1)
     ELSE IF includes(lower, "dopodomani") THEN addDays(today, 2)
     ELSE IF includes(lower, "ieri") THEN addDays(today, -1)
     ELSE IF includes(lower, "l'altro ieri") THEN addDays(today, -2)
     ELSE IF day > 0 THEN _getNextDayOfWeek(today, DAYS_MAP[day][2])
     ELSE IF test(Cat(<<Lit("prossim"), Set({"a", "o"}), Lit(" settimana")>>), dateStr)
     THEN addDays(today, DaysPerWeek)
     ELSE IF test(Cat(<<Lit("prossim"), Set({"a", "o"}), Lit(" mese")>>), dateStr)
     THEN addMonths(today, 1)
     ELSE IF test(Cat(<<Lit("quest"), Set({"a", "o"}), Lit(" settimana")>>), dateStr) THEN today
     ELSE IF test(Cat(<<Lit("quest"), Set({"a", "o"}), Lit(" mese")>>), dateStr) THEN today
     ELSE IF test(Cat(<<Lit("scors"), Set({"a", "o"}), Lit(" settimana")>>), dateStr)
     THEN addDays(today, -DaysPerWeek)
     ELSE IF test(Cat(<<Lit("scors"), Set({"a", "o"}), Lit(" mese")>>), dateStr)
     THEN addMonths(today, -1)
     ELSE IF dayMatch.found THEN (IF onDay < today THEN addMonths(onDay, 1) ELSE onDay)
     ELSE IF long >= 0 THEN long
     ELSE IF short >= 0 THEN (IF short < today THEN addYears(short, 1) ELSE short)
     ELSE today

\* date-fns parse(cleanTime, 'HH:mm' or 'H', new Date()), noon when neither format fits
TimeFormatLong ==
  Cat(<<StartOfText, Grp(1, TwoDigits), Lit(":"), Grp(2, TwoDigits), EndOfText>>)
TimeFormatShort == Cat(<<StartOfText, Grp(1, TwoDigits), EndOfText>>)
_parseTimeString(timeStr, today) ==
  LET cleanTime == trim(replaceFirst(timeStr, Alt(<<Lit("alle"), Lit("ore"), Lit("alle ore")>>)))
      long == match(cleanTime, TimeFormatLong)
      short == match(cleanTime, TimeFormatShort)
      lh == parseInt(Group(cleanTime, long, 1))
      lm == parseInt(Group(cleanTime, long, 2))
      sh == parseInt(Group(cleanTime, short, 1))
  IN IF long.found /\ lh < HoursPerDay /\ lm < MinutesPerHour THEN setHours(today, lh, lm)
     ELSE IF short.found /\ sh < HoursPerDay THEN setHours(today, sh, 0)
     ELSE setHours(today, NoonHour, 0)

RECURSIVE _removePatternsFrom(_, _, _)
_removePatternsFrom(text, patterns, i) ==
  IF i > Len(patterns) THEN text
  ELSE _removePatternsFrom(replaceFirst(text, patterns[i]), patterns, i + 1)
_removePatterns(text, patterns) == trim(_removePatternsFrom(text, patterns, 1))

RECURSIVE skipSeparators(_, _, _)
skipSeparators(s, seps, i) ==
  IF i <= Len(s) /\ SubSeq(s, i, i) \in seps THEN skipSeparators(s, seps, i + 1) ELSE i
RECURSIVE splitOn(_, _, _, _)
\* s.split(/[...]+/): the pieces of s between runs of the separator characters, from i on
splitOn(s, seps, i, piece) ==
  IF i > Len(s) THEN <<piece>>
  ELSE IF SubSeq(s, i, i) \in seps
  THEN <<piece>> \o splitOn(s, seps, skipSeparators(s, seps, i), "")
  ELSE splitOn(s, seps, i + 1, piece \o SubSeq(s, i, i))

LeadingWord ==
  Cat(<<StartOfText,
        Words(<<"un", "una", "il", "la", "lo", "gli", "le", "di", "a", "da", "in", "con", "su",
                "per", "tra", "fra">>),
        Plus(Set(SpaceChars))>>)
TitleMaxLength == 50
TitleMaxWords == 5
RECURSIVE joinWords(_, _)
joinWords(ws, n) ==
  IF n = 0 THEN "" ELSE IF n = 1 THEN ws[1] ELSE joinWords(ws, n - 1) \o " " \o ws[n]
\* "" stands for the null the source returns
_extractMeaningfulTitle(text) ==
  LET cleanedText == trim(replaceFirst(text, LeadingWord))
      words == splitOn(cleanedText, SpaceChars, 1, "")
  IN IF cleanedText = "" THEN ""
     ELSE IF Len(cleanedText) < TitleMaxLength THEN cleanedText
     ELSE IF Len(words) <= TitleMaxWords THEN cleanedText
     ELSE joinWords(words, TitleMaxWords) \o "..."

TitlePatterns ==
  Cat(<<Alt(<<Lit("intitolato"), Lit("chiamato"), Lit("denominato"), Lit("dal titolo"),
              Lit("con titolo"), Lit("su"), Lit("riguardo a")>>),
        Plus(Set(SpaceChars)), Opt(Set({"\"", "'"})), Grp(1, Plus(NSet({"\"", "'"}))),
        Opt(Set({"\"", "'"}))>>)

\* s.replace(sub, '') with a string pattern: the first occurrence of sub
replaceString(s, sub) ==
  LET i == IndexFrom(s, sub, 1)
  IN IF i = 0 THEN s ELSE SubSeq(s, 1, i - 1) \o SubSeq(s, i + Len(sub), Len(s))

_extractEventData(text, schema) ==
  LET participantsMatch == match(text, PATTERNS_PARTICIPANTS)
      pieces == splitOn(Group(text, participantsMatch, 1), {",", "e"}, 1, "")
      participants == SelectSeq([i \in 1..Len(pieces) |-> trim(pieces[i])], LAMBDA q : q # "")
      text1 == IF participantsMatch.found THEN replaceString(text, Whole(text, participantsMatch))
               ELSE text
      locationMatch == match(text1, PATTERNS_LOCATION)
      text2 == IF locationMatch.found THEN replaceString(text1, Whole(text1, locationMatch))
               ELSE text1
      workingText ==
        Invoke("RegexParser._removePatterns",
               <<text2, <<PATTERNS_CREATE, PATTERNS_UPDATE, PATTERNS_DELETE, PATTERNS_DATE,
                          PATTERNS_TIME, PATTERNS_DURATION, PATTERNS_RECURRENCE>>>>)
      titleMatch == match(workingText, TitlePatterns)
      potentialTitle == Invoke("RegexParser._extractMeaningfulTitle", <<workingText>>)
      title == IF titleMatch.found THEN Str(trim(Group(workingText, titleMatch, 1)))
               ELSE IF trim(workingText) # "" /\ potentialTitle # "" THEN Str(potentialTitle)
               ELSE schema.eventData.title
  IN [schema EXCEPT
        !.eventData.participants = IF participantsMatch.found THEN Arr(participants) ELSE @,
        !.eventData.location =
           IF locationMatch.found THEN Str(trim(Group(text1, locationMatch, 1))) ELSE @,
        !.eventData.title = title]

_extractTimeData(text, schema, today) ==
  LET dateMatch == match(text, PATTERNS_DATE)
      timeMatch == match(text, PATTERNS_TIME)
      durationMatch == match(text, PATTERNS_DURATION)
      amount == parseInt(Group(text, durationMatch, 1))
      unit == toLowerCase(Group(text, durationMatch, 2))
      recurrenceMatch == match(text, PATTERNS_RECURRENCE)
      relativeDateMatch == match(text, PATTERNS_RELATIVE_DATE)
      relAmount == parseInt(Group(text, relativeDateMatch, 1))
      relUnit == toLowerCase(Group(text, relativeDateMatch, 2))
  IN [schema EXCEPT
        !.timeData.startDate =
           IF dateMatch.found
           THEN DateOf(Invoke("RegexParser._parseDateString", <<Whole(text, dateMatch), today>>))
           ELSE IF relativeDateMatch.found
           THEN DateOf(IF startsWith(relUnit, "giorn") THEN addDays(today, relAmount)
                       ELSE IF startsWith(relUnit, "settiman")
                       THEN addDays(today, relAmount * DaysPerWeek)
                       ELSE IF startsWith(relUnit, "mes") THEN addMonths(today, relAmount)
                       ELSE today)
           ELSE @,
        !.timeData.startTime =
           IF timeMatch.found
           THEN DateOf(Invoke("RegexParser._parseTimeString", <<Whole(text, timeMatch), today>>))
           ELSE @,
        !.timeData.duration =
           IF ~durationMatch.found THEN @
           ELSE IF startsWith(unit, "minut") THEN Num(amount)
           ELSE IF startsWith(unit, "or") THEN Num(amount * MinutesPerHour)
           ELSE IF startsWith(unit, "giorn") THEN Num(amount * MinutesPerDay)
           ELSE @,
        !.timeData.recurrence =
           IF recurrenceMatch.found THEN RECURRENCE_MAP(toLowerCase(Group(text, recurrenceMatch, 1)))
           ELSE @]

YearOf(at) == MonthOf(at) \div MonthsPerYear
QueryWords ==
  Alt(<<Lit("quali"), Lit("quando"), Lit("dove"), Lit("chi"), Lit("elenca"),
        Cat(<<Lit("mostra"), Opt(Lit("mi"))>>), Lit("trova"), Lit("appuntamenti"), Lit("eventi"),
        Lit("incontri"), Lit("riunioni")>>)
MinSearchLength == 2

\* the time range of a query: [start, end], each a date or Undefined when the key is not set
NextRange(text, today) ==
  LET m == match(text, PATTERNS_TIME_RANGE_NEXT)
      unit == toLowerCase(Group(text, m, 1))
      untilMonday == (DaysPerWeek - getDay(today) + 1) % DaysPerWeek
      daysUntilMonday == IF untilMonday = 0 THEN DaysPerWeek ELSE untilMonday
      startDate ==
        IF unit = "settimana" THEN addDays(today, daysUntilMonday)
        ELSE IF unit = "mese" THEN MakeDate(MonthOf(today) + 1, 1, TimeOfDay(today))
        ELSE MakeDate((YearOf(today) + 1) * MonthsPerYear, 1, TimeOfDay(today))
      endDate ==
        IF unit = "settimana" THEN addDays(startDate, DaysPerWeek - 1)
        ELSE IF unit = "mese" THEN MakeDate(MonthOf(startDate) + 1, 0, TimeOfDay(today))
        ELSE MakeDate(MonthOf(startDate) + MonthsPerYear, 0, TimeOfDay(today))
  IN IF m.found THEN <<DateOf(startDate), DateOf(endDate)>> ELSE <<Undefined, Undefined>>

LastRange(text, today, range) ==
  LET m == match(text, PATTERNS_TIME_RANGE_LAST)
      unit == toLowerCase(Group(text, m, 1))
      dayOfWeek == IF getDay(today) = 0 THEN DaysPerWeek ELSE getDay(today)
      startDate ==
        IF unit = "settimana" THEN addDays(today, 1 - dayOfWeek - DaysPerWeek)
        ELSE IF unit = "mese" THEN MakeDate(MonthOf(today) - 1, 1, TimeOfDay(today))
        ELSE MakeDate((YearOf(today) - 1) * MonthsPerYear, 1, TimeOfDay(today))
  IN IF m.found THEN <<DateOf(startDate), DateOf(endOfDay(today))>> ELSE range

ExplicitRange(text, today, range) ==
  LET startMatch == match(text, PATTERNS_TIME_RANGE_START)
      endMatch == match(text, PATTERNS_TIME_RANGE_END)
  IN <<IF startMatch.found
       THEN DateOf(Invoke("RegexParser._parseDateString", <<Group(text, startMatch, 3), today>>))
       ELSE range[1],
       IF endMatch.found
       THEN DateOf(endOfDay(Invoke("RegexParser._parseDateString",
                                   <<Group(text, endMatch, 3), today>>)))
       ELSE range[2]>>

PastRange(text, now, range) ==
  LET m == match(text, PATTERNS_RELATIVE_TIME_PAST)
      amount == parseInt(Group(text, m, 1))
      unit == toLowerCase(Group(text, m, 2))
      today == endOfDay(now)
      startDate ==
        IF startsWith(unit, "giorn") THEN addDays(today, -amount)
        ELSE IF startsWith(unit, "settiman") THEN addDays(today, -(amount * DaysPerWeek))
        ELSE IF startsWith(unit, "mes") THEN addMonths(today, -amount)
        ELSE today
  IN IF m.found THEN <<DateOf(startDate), DateOf(today)>> ELSE range

_extractQueryData(text, schema, today) ==
  LET range ==
        PastRange(text, today,
                  ExplicitRange(text, today, LastRange(text, today, NextRange(text, today))))
      queryTermsMatch == match(text, PATTERNS_QUERY_TERMS)
      cleanedText ==
        Invoke("RegexParser._removePatterns",
               <<text, <<PATTERNS_READ, PATTERNS_DATE, PATTERNS_TIME, PATTERNS_TIME_RANGE_NEXT,
                         PATTERNS_TIME_RANGE_LAST, PATTERNS_RELATIVE_TIME_PAST,
                         PATTERNS_TIME_RANGE_START, PATTERNS_TIME_RANGE_END>>>>)
      searchText == trim(replaceAll(cleanedText, QueryWords, 1))
      searchTerm ==
        IF queryTermsMatch.found THEN Str(trim(Group(text, queryTermsMatch, 1)))
        ELSE IF Len(searchText) > MinSearchLength THEN Str(searchText)
        ELSE schema.queryData.searchTerm
      timeRange ==
        IF range[1].t # "undefined" \/ range[2].t # "undefined" THEN TimeRange(range[1], range[2])
        ELSE schema.queryData.timeRange
  IN [schema EXCEPT
        !.queryData.searchTerm = searchTerm,
        !.queryData.timeRange =
           IF ~Truthy(timeRange) /\ ~Truthy(searchTerm) THEN TimeRange(DateOf(today), Undefined)
           ELSE timeRange]

LongTextLength == 100
ManyWords == 15
RECURSIVE countSpaces(_, _)
countSpaces(s, i) ==
  IF i > Len(s) THEN 0 ELSE (IF SubSeq(s, i, i) = " " THEN 1 ELSE 0) + countSpaces(s, i + 1)
Clamp(score) == IF score < 0 THEN 0 ELSE IF score > FullConfidence THEN FullConfidence ELSE score

_calculateConfidence(text, schema) ==
  LET base == IF Truthy(schema.intent) THEN 50 ELSE 0
      data ==
        IF schema.intent.s \in {"create", "update", "delete"}
        THEN (IF Truthy(schema.eventData.title) THEN 20 ELSE 0)
             + (IF Truthy(schema.timeData.startDate) THEN 10 ELSE 0)
             + (IF Truthy(schema.timeData.startTime) THEN 10 ELSE 0)
             + (IF Truthy(schema.eventData.location) THEN 5 ELSE 0)
             + (IF Len(schema.eventData.participants.items) > 0 THEN 5 ELSE 0)
        ELSE (IF Truthy(schema.queryData.timeRange) THEN 20 ELSE 0)
             + (IF Truthy(schema.queryData.searchTerm) THEN 20 ELSE 0)
      long == IF Len(text) > LongTextLength THEN 10 ELSE 0
      wordy == IF countSpaces(text, 1) + 1 > ManyWords THEN 5 ELSE 0
      ambiguous == 10 * Len(schema.parsingMetadata.ambiguities)
  IN Clamp(base + data - long - wordy - ambiguous)

QueryTerms ==
  Alt(<<Lit("quali"), Lit("quanti"), Lit("quando"), Lit("dove"), Lit("chi"), Lit("elenca"),
        Cat(<<Lit("mostra"), Opt(Lit("mi"))>>), Lit("trova")>>)
_isQueryCommand(text) ==
  \/ test(QueryTerms, text)
  \/ test(PATTERNS_RELATIVE_TIME_PAST, text)
  \/ test(PATTERNS_TIME_RANGE_NEXT, text)
  \/ test(PATTERNS_TIME_RANGE_LAST, text)
  \/ endsWith(trim(text), "?")

RegexIntent(s) ==
  IF test(PATTERNS_CREATE, s) THEN Str("create")
  ELSE IF test(PATTERNS_READ, s) THEN Str("read")
  ELSE IF test(PATTERNS_UPDATE, s) THEN Str("update")
  ELSE IF test(PATTERNS_DELETE, s) THEN Str("delete")
  ELSE IF Invoke("RegexParser._isQueryCommand", <<s>>) THEN Str("query")
  ELSE Null

\* RegexParser.parseCommand(text) at instant now: the schema, or the error raised. A text that
\* is not a string has no trim() and no match(), one of which every path calls: a TypeError
RegexParser_parseCommand(text, now) ==
  LET s == text.s
      empty == CommandSchema(Undefined, Undefined, Undefined, Undefined, Undefined,
                             ParsingMetadata("regex", text, <<>>, <<>>), FALSE)
      commandSchema == [empty EXCEPT !.intent = RegexIntent(s)]
      extracted ==
        IF commandSchema.intent.s \in {"create", "update", "delete"}
        THEN Invoke("RegexParser._extractTimeData",
                    <<s, Invoke("RegexParser._extractEventData", <<s, commandSchema>>), now>>)
        ELSE Invoke("RegexParser._extractQueryData", <<s, commandSchema, now>>)
      validated ==
        [extracted EXCEPT !.isValid = Invoke("CommandSchema.validate", <<extracted>>).value]
  IN IF text.t # "string" THEN Raise(TypeError)
     ELSE IF ~Truthy(commandSchema.intent) THEN Ok(commandSchema)
     ELSE Ok([validated EXCEPT
                !.confidence = Num(Invoke("RegexParser._calculateConfidence", <<s, validated>>))])

----------------------------------------------------------------------------
(* Date strings: new Date(string) and Date.toISOString(), local time = UTC *)

ToDigit(n) == SubSeq("0123456789", n + 1, n + 1)
Pad2(n) == ToDigit((n \div 10) % 10) \o ToDigit(n % 10)
Pad4(n) == Pad2(n \div 100) \o Pad2(n % 100)
toISOString(at) ==
  Pad4(EpochYear + YearOf(at)) \o "-" \o Pad2((MonthOf(at) % MonthsPerYear) + 1) \o "-"
  \o Pad2(getDate(at)) \o "T" \o Pad2(getHours(at)) \o ":" \o Pad2(getMinutes(at)) \o ":00.000Z"

NDigits(n) == Rep(Set(Digits), n, n)
IsoDate == Cat(<<NDigits(4), Lit("-"), NDigits(2), Lit("-"), NDigits(2)>>)
IsoTime ==
  Cat(<<Lit("t"), NDigits(2), Lit(":"), NDigits(2),
        Opt(Cat(<<Lit(":"), NDigits(2), Opt(Cat(<<Lit("."), NDigits(3)>>))>>)), Opt(Lit("z"))>>)
IsoPattern == Cat(<<StartOfText, IsoDate, Opt(IsoTime), EndOfText>>)
\* new Date(s): the accepted strings are the ISO forms, anything else is an Invalid Date
NewDate(s) ==
  LET year == parseInt(SubSeq(s, 1, 4))
      month == parseInt(SubSeq(s, 6, 7))
      day == parseInt(SubSeq(s, 9, 10))
      timed == Len(s) > 10
      hour == IF timed THEN parseInt(SubSeq(s, 12, 13)) ELSE 0
      minute == IF timed THEN parseInt(SubSeq(s, 15, 16)) ELSE 0
  IN IF test(IsoPattern, s) /\ ValidDayMonth(day, month) /\ hour < HoursPerDay
        /\ minute < MinutesPerHour
     THEN DateOf(MakeDate((year - EpochYear) * MonthsPerYear + month - 1, day,
                          hour * MinutesPerHour + minute))
     ELSE InvalidDate

----------------------------------------------------------------------------
(* CommandSchema: the conversions to the calendar API's objects            *)

\* the length of an event that states none: one hour
DefaultDuration == MinutesPerHour
EventIntentError == "Solo gli intenti create e update possono essere convertiti in eventi"
SearchIntentError ==
  "Solo gli intenti read e query possono essere convertiti in parametri di ricerca"

\* date.toISOString(): the string, or the RangeError of an Invalid Date
isoOf(date) == IF date.valid THEN Ok(Str(toISOString(date.at))) ELSE Raise(RangeError)
\* an end that is the start itself
plusNothing(date, minutes) == date
\* new Date(date.getTime() + minutes * 60 * 1000)
plusMinutes(date, minutes) == IF date.valid THEN DateOf(date.at + minutes) ELSE InvalidDate

\* CommandSchema._combineDateTime(date, time) at instant now: the day of date (of now without
\* one) at the hour and minute of time (noon without one); an Invalid Date when a part is
_combineDateTime(date, time, now) ==
  LET day == IF Truthy(date) THEN date ELSE DateOf(now)
  IN IF ~day.valid \/ (Truthy(time) /\ ~time.valid) THEN InvalidDate
     ELSE IF Truthy(time)
     THEN DateOf(setHours(day.at, getHours(time.at), getMinutes(time.at)))
     ELSE DateOf(setHours(day.at, NoonHour, 0))

\* a conversion that does not look at the intent
convertsAnyIntent(schema, now) ==
  Ok([summary |-> schema.eventData.title, start |-> Str(toISOString(now))])
\* schema.toGoogleCalendarEvent() at instant now: the event record, or the error thrown
toGoogleCalendarEvent(schema, now) ==
  LET timeData == schema.timeData
      eventData == schema.eventData
      startDateTime == _combineDateTime(timeData.startDate, timeData.startTime, now)
      endDateTime ==
        IF Truthy(timeData.endDate) /\ Truthy(timeData.endTime)
        THEN _combineDateTime(timeData.endDate, timeData.endTime, now)
        ELSE IF Truthy(timeData.duration) THEN plusMinutes(startDateTime, timeData.duration.n)
        ELSE plusMinutes(startDateTime, DefaultDuration)
      start == isoOf(startDateTime)
      end == isoOf(endDateTime)
  IN IF schema.intent \notin {Str("create"), Str("update")} THEN Raise(EventIntentError)
     ELSE IF start.threw \/ end.threw THEN Raise(RangeError)
     ELSE IF eventData.participants.t # "array" THEN Raise(TypeError)
     ELSE Ok([summary |-> eventData.title,
              description |-> OrElse(eventData.description, Str("")),
              location |-> OrElse(eventData.location, Str("")),
              start |-> start.value, end |-> end.value,
              attendees |-> eventData.participants])

\* schema.toGoogleCalendarSearchParams() at instant now: the parameters, or the error thrown
toGoogleCalendarSearchParams(schema, now) ==
  LET queryData == schema.queryData
      timeRange == queryData.timeRange
      timeMin ==
        IF ~Truthy(timeRange) THEN Ok(Undefined)
        ELSE IF Truthy(timeRange.start) THEN isoOf(timeRange.start)
        ELSE Ok(Str(toISOString(now)))
      timeMax ==
        IF Truthy(timeRange) /\ Truthy(timeRange.end) THEN isoOf(timeRange.end)
        ELSE Ok(Undefined)
  IN IF schema.intent \notin {Str("read"), Str("query")} THEN Raise(SearchIntentError)
     ELSE IF timeMin.threw \/ timeMax.threw THEN Raise(RangeError)
     ELSE Ok([calendarId |-> "primary", singleEvents |-> TRUE,
              maxResults |-> OrElse(queryData.limit, Num(DefaultLimit)),
              orderBy |-> "startTime", timeMin |-> timeMin.value, timeMax |-> timeMax.value,
              q |-> IF Truthy(queryData.searchTerm) THEN queryData.searchTerm ELSE Undefined])

----------------------------------------------------------------------------
(* LLMParser, the generative extractor                                     *)

\* the objects of a model response; an absent key is Undefined
Response(intent, confidence, eventData, timeData, queryData) ==
  [t |-> "object", intent |-> intent, confidence |-> confidence, eventData |-> eventData,
   timeData |-> timeData, queryData |-> queryData, ambiguities |-> Undefined,
   missingInfo |-> Undefined]
EventObj(title) ==
  [t |-> "object", title |-> title, description |-> Undefined, location |-> Undefined,
   participants |-> Undefined]
TimeObj(startDate, startTime) ==
  [t |-> "object", startDate |-> startDate, startTime |-> startTime, endDate |-> Undefined,
   endTime |-> Undefined, duration |-> Undefined, recurrence |-> Undefined]
QueryObj(timeRange, searchTerm) ==
  [t |-> "object", timeRange |-> timeRange, searchTerm |-> searchTerm, filterType |-> Undefined,
   limit |-> Undefined]
\* the literal {}
EmptyEvent == EventObj(Undefined)
EmptyTime == TimeObj(Undefined, Undefined)
EmptyQuery == QueryObj(Undefined, Undefined)
EmptyRange == TimeRange(Undefined, Undefined)

\* _parseResponse(content): the text of the answer is abstracted to whether it holds a {...}
\* span, whether that span parses as JSON, whether it parses after the repair pass, and the
\* object it then denotes
ParseFailure ==
  [t |-> "object", intent |-> Null, confidence |-> Num(0), eventData |-> Undefined,
   timeData |-> Undefined, queryData |-> Undefined,
   ambiguities |-> Arr(<<"Errore nel parsing della risposta">>), missingInfo |-> Arr(<<>>)]
_parseResponse(content) ==
  IF ~content.braces THEN ParseFailure
  ELSE IF content.parses THEN content.object
  ELSE IF content.repairs THEN content.object
  ELSE ParseFailure

HourPattern ==
  Cat(<<Grp(1, Digit12), Opt(Cat(<<Lit(":"), Grp(2, NDigits(2))>>)), Star(Set(SpaceChars)),
        Opt(Cat(<<Lit("del "), Grp(3, Words(<<"pomeriggio", "mattino", "sera">>))>>))>>)

\* the hour correction of one field of response.timeData
fixTimeField(response, field, lowerText) ==
  LET v == Prop(response.timeData, field)
      timeMatch == match(lowerText, HourPattern)
      stated == parseInt(Group(lowerText, timeMatch, 1))
      minutes == IF HasGroup(timeMatch, 2) THEN parseInt(Group(lowerText, timeMatch, 2)) ELSE 0
      part == Group(lowerText, timeMatch, 3)
      hour == IF part \in {"pomeriggio", "sera"} /\ stated < NoonHour THEN stated + NoonHour
              ELSE stated
      dateObj == Invoke("Date", <<v.s>>)
  IN IF ~(Truthy(v) /\ v.t = "string") \/ ~timeMatch.found THEN Ok(response)
     ELSE IF ~dateObj.valid THEN Raise(RangeError)
     ELSE IF getHours(dateObj.at) = hour THEN Ok(response)
     ELSE Ok([response EXCEPT
                !.timeData = [@ EXCEPT
                   ![field] = Str(toISOString(setHours(dateObj.at, hour, minutes)))]])

fixTimes(response, lowerText) ==
  LET first == fixTimeField(response, "startTime", lowerText)
  IN IF ~Truthy(response.timeData) THEN Ok(response)
     ELSE IF first.threw THEN first
     ELSE fixTimeField(first.value, "endTime", lowerText)

mentionsAny(lowerText, words) == \E w \in words : includes(lowerText, w)
QueryVerbs == {"quali", "mostra", "visualizza", "vedi", "trova", "cerca", "dammi", "elenca"}
CalendarNouns == {"appuntament", "event", "riunion", "calendar"}
BulkQualifiers == {"tutti", "gli appuntamenti"}
PeriodReferences == {"domani", "oggi", "settimana", "mese"}
MinTitleLength == 3

\* assigning a property of a value that is not an object raises a TypeError (module code is strict)
\* if (!response.queryData) response.queryData = {};
\* if (!response.queryData.timeRange) response.queryData.timeRange = {};
ensureTimeRange(response) ==
  LET queryData == IF Truthy(response.queryData) THEN response.queryData ELSE EmptyQuery
  IN IF Truthy(Prop(queryData, "timeRange")) THEN Ok([response EXCEPT !.queryData = queryData])
     ELSE IF queryData.t # "object" THEN Raise(TypeError)
     ELSE Ok([response EXCEPT !.queryData = [queryData EXCEPT !.timeRange = EmptyRange]])

\* response.queryData.timeRange.start = ...; response.queryData.timeRange.end = ...
setTimeRange(response, start, end) ==
  IF response.queryData.timeRange.t # "object" THEN Raise(TypeError)
  ELSE Ok([response EXCEPT
             !.queryData = [@ EXCEPT
                !.timeRange = [@ EXCEPT !.start = Str(toISOString(start)),
                                        !.end = Str(toISOString(end))]]])

startOfDay(at) == setHours(at, 0, 0)
setDayRange(response, day) == setTimeRange(response, startOfDay(day), endOfDay(day))

\* the reclassification of questions about appointments as queries
fixQuery(response, lowerText, today) ==
  LET asQuery == [response EXCEPT !.intent = Str("query")]
      title == Prop(asQuery.eventData, "title")
      queryData == IF Truthy(asQuery.queryData) THEN asQuery.queryData ELSE EmptyQuery
      moves == ~Truthy(Prop(queryData, "searchTerm")) /\ title.t = "string"
               /\ Len(title.s) > MinTitleLength
      moved ==
        IF ~(Truthy(asQuery.eventData) /\ Truthy(title)) THEN Ok(asQuery)
        ELSE IF moves /\ queryData.t # "object" THEN Raise(TypeError)
        ELSE Ok([asQuery EXCEPT
                   !.queryData = IF moves THEN [queryData EXCEPT !.searchTerm = title]
                                 ELSE queryData,
                   !.eventData = [@ EXCEPT !.title = Str("")]])
      ranged == IF moved.threw THEN moved ELSE ensureTimeRange(moved.value)
  IN IF ~(mentionsAny(lowerText, QueryVerbs) /\ mentionsAny(lowerText, CalendarNouns))
     THEN Ok(response)
     ELSE IF ranged.threw THEN ranged
     ELSE IF includes(lowerText, "domani") THEN setDayRange(ranged.value, addDays(today, 1))
     ELSE IF includes(lowerText, "oggi") THEN setDayRange(ranged.value, today)
     ELSE IF includes(lowerText, "settimana")
     THEN setTimeRange(ranged.value, today, addDays(today, DaysPerWeek))
     ELSE ranged

\* the guard left out: the response goes on as the model gave it
withoutBulkGuard(response, lowerText, today) == Ok(response)
\* the destructive-bulk guard
fixBulkDelete(response, lowerText, today) ==
  LET ranged == ensureTimeRange([response EXCEPT !.intent = Str("query")])
  IN IF ~(response.intent = Str("delete") /\ mentionsAny(lowerText, BulkQualifiers)
          /\ mentionsAny(lowerText, PeriodReferences))
     THEN Ok(response)
     ELSE IF ranged.threw THEN ranged
     ELSE IF includes(lowerText, "domani") THEN setDayRange(ranged.value, addDays(today, 1))
     ELSE IF includes(lowerText, "oggi") THEN setDayRange(ranged.value, today)
     ELSE ranged

\* _fixCommonIssues(response, originalText) at instant today: the corrected response, or the
\* error it raised
_fixCommonIssues(response, originalText, today) ==
  LET lowerText == toLowerCase(originalText.s)
      timed == fixTimes(response, lowerText)
      queried == IF timed.threw THEN timed ELSE fixQuery(timed.value, lowerText, today)
  IN IF originalText.t # "string" THEN Raise(TypeError)
     ELSE IF queried.threw THEN queried
     ELSE fixBulkDelete(queried.value, lowerText, today)

RicordamiPattern ==
  Cat(<<Lit("ricordami"), Plus(Set(SpaceChars)), Opt(Cat(<<Lit("di"), Plus(Set(SpaceChars))>>)),
        Grp(1, LazyPlus(NSet(NewLine))),
        Alt(<<Cat(<<Plus(Set(SpaceChars)), Lit("il")>>), Cat(<<Plus(Set(SpaceChars)), Lit("domani")>>),
              Cat(<<Plus(Set(SpaceChars)), Lit("alle")>>), Cat(<<Plus(Set(SpaceChars)), Lit("oggi")>>),
              EndOfText>>)>>)

\* one date field of convertDates: a non-empty string other than 'null' becomes a Date
\* (an Invalid Date when it does not parse), 'null' and '' become null
convertDate(v) ==
  IF Truthy(v) /\ v.t = "string" /\ v.s # "null" THEN Invoke("Date", <<v.s>>)
  ELSE IF v = Str("null") \/ v = Str("") THEN Null
  ELSE v

\* convertDates(timeData): the copy {...data} of a value that is not an object has no fields
convertTimeData(data, intent, today) ==
  LET copy == IF data.t = "object" THEN data ELSE EmptyTime
      result == [copy EXCEPT !.startDate = convertDate(@), !.endDate = convertDate(@),
                             !.startTime = convertDate(@), !.endTime = convertDate(@)]
  IN IF intent = Str("create") /\ ~Truthy(result.startDate)
     THEN [result EXCEPT !.startDate = DateOf(today)]
     ELSE result

\* convertDates(queryData), taken when queryData.timeRange is truthy: the range's ends
convertQueryData(data) ==
  IF data.timeRange.t # "object" THEN data
  ELSE [data EXCEPT !.timeRange = [@ EXCEPT !.start = convertDate(@), !.end = convertDate(@)]]

\* parseFloat(confidence) || 0.7, in hundredths; a confidence that is not a number is NaN
DefaultConfidence == 70
parseConfidence(v) == IF v.t = "number" /\ v.n # 0 THEN v ELSE Num(DefaultConfidence)

Items(v) == IF v.t = "array" THEN v.items ELSE <<>>

\* _toCommandSchema(structuredResponse, originalText) at instant today: the schema, or the
\* error raised on the way
_toCommandSchema(structuredResponse, originalText, today) ==
  LET intent == structuredResponse.intent
      eventData == Default(structuredResponse.eventData, EmptyEvent)
      timeData == Default(structuredResponse.timeData, EmptyTime)
      queryData == Default(structuredResponse.queryData, EmptyQuery)
      reminder == includes(toLowerCase(originalText.s), "ricordami") /\ ~Truthy(intent)
      finalIntent == IF reminder THEN Str("create") ELSE intent
      title == Prop(eventData, "title")
      untitled == ~Truthy(title) \/ trim(title.s) = ""
      m == match(originalText.s, RicordamiPattern)
      retitled == reminder /\ untitled /\ m.found /\ Group(originalText.s, m, 1) # ""
      event == IF retitled
               THEN [eventData EXCEPT !.title = Str(trim(Group(originalText.s, m, 1)))]
               ELSE eventData
      processedQueryData ==
        IF Truthy(queryData) /\ Truthy(Prop(queryData, "timeRange")) THEN convertQueryData(queryData)
        ELSE queryData
      schema ==
        CommandSchema(finalIntent, parseConfidence(Default(structuredResponse.confidence, Num(0))),
                      event, convertTimeData(timeData, finalIntent, today), processedQueryData,
                      ParsingMetadata("llm", originalText,
                                      Items(Default(structuredResponse.ambiguities, Arr(<<>>))),
                                      Items(Default(structuredResponse.missingInfo, Arr(<<>>)))),
                      FALSE)
      valid == Invoke("CommandSchema.validate", <<schema>>)
  IN IF reminder /\ Throws(eventData) THEN Raise(TypeError)
     ELSE IF reminder /\ Truthy(title) /\ title.t # "string" THEN Raise(TypeError)
     ELSE IF retitled /\ eventData.t # "object" THEN Raise(TypeError)
     ELSE IF valid.threw THEN Raise(TypeError)
     ELSE Ok([schema EXCEPT !.isValid = valid.value])

\* the backend's answer to one fetch
Outcome(kind, status, content) == [kind |-> kind, status |-> status, content |-> content]
Content(braces, parses, repairs, object) ==
  [braces |-> braces, parses |-> parses, repairs |-> repairs, object |-> object]
NoContent == Content(FALSE, FALSE, FALSE, Null)

LLMFailure(text, message) ==
  CommandSchema(Undefined, Undefined, Undefined, Undefined, Undefined,
                ParsingMetadata("llm", text, <<"Errore: " \o message>>, <<>>), FALSE)
LLMUnconfigured(text) ==
  CommandSchema(Undefined, Undefined, Undefined, Undefined, Undefined,
                ParsingMetadata("llm", text, <<"LLM non configurato">>, <<"API key">>), FALSE)

\* the body of LLMParser.parseCommand after the fetch settled with outcome, at instant today
LLMParser_complete(text, outcome, today) ==
  LET fixed ==
        Invoke("LLMParser._fixCommonIssues",
               <<Invoke("LLMParser._parseResponse", <<outcome.content>>), text, today>>)
      schema == Invoke("LLMParser._toCommandSchema", <<fixed.value, text, today>>)
  IN IF outcome.kind = "network" THEN LLMFailure(text, "Failed to fetch")
     ELSE IF outcome.kind = "http"
     THEN LLMFailure(text, "Errore API Gemini: " \o outcome.status)
     ELSE IF outcome.kind \in {"nocandidates", "emptycandidates"}
     THEN LLMFailure(text, "Risposta API vuota o non valida")
     ELSE IF outcome.kind = "nocontent"
     THEN LLMFailure(text, "Contenuto della risposta non trovato")
     ELSE IF fixed.threw THEN LLMFailure(text, fixed.message)
     ELSE IF schema.threw THEN LLMFailure(text, schema.message)
     ELSE schema.value

----------------------------------------------------------------------------
(* IntentValidator                                                         *)

Validation(errors, suggestions, missingInfo) ==
  [isValid |-> Len(errors) = 0, errors |-> errors, suggestions |-> suggestions,
   missingInfo |-> missingInfo]
IfSeq(cond, items) == IF cond THEN items ELSE <<>>

PastDateError == "La data specificata è nel passato"
MissingTitleError == "Titolo dell'evento mancante"
MissingDateError == "Data dell'evento mancante"

\* the comparison made on the day alone
BeforeThatDay(v, today) == v.t = "date" /\ v.valid /\ DayOf(v.at) < DayOf(today)
\* startDate < new Date(): a comparison with an Invalid Date is false
Before(v, today) == v.t = "date" /\ v.valid /\ v.at < today

_validateCreateIntent(schema, today) ==
  LET noTitle == ~Truthy(Prop(schema.eventData, "title"))
      noDate == ~Truthy(Prop(schema.timeData, "startDate"))
      noTime == ~Truthy(Prop(schema.timeData, "startTime"))
      past == ~noDate /\ Before(schema.timeData.startDate, today)
  IN IF Throws(schema.eventData) \/ Throws(schema.timeData) THEN Raise(TypeError)
     ELSE Ok(Validation(
            IfSeq(noTitle, <<MissingTitleError>>) \o IfSeq(noDate, <<MissingDateError>>)
              \o IfSeq(past, <<PastDateError>>),
            IfSeq(noTitle, <<"Specifica un titolo chiaro per l'evento">>)
              \o IfSeq(noDate, <<"Specifica quando si terrà l'evento (es. \"domani\", \"lunedì\", \"il 15/05\")">>)
              \o IfSeq(noTime, <<"Potresti specificare anche l'ora dell'evento (es. \"alle 15:30\")">>)
              \o IfSeq(past, <<"Specifica una data futura per il nuovo evento">>),
            IfSeq(noTitle, <<"title">>) \o IfSeq(noDate, <<"date">>)))

_validateReadIntent(schema) ==
  LET hasTimeRange == Truthy(schema.queryData) /\ Truthy(Prop(schema.queryData, "timeRange"))
      hasSearchTerm == Truthy(schema.queryData) /\ Truthy(Prop(schema.queryData, "searchTerm"))
      missing == ~hasTimeRange /\ ~hasSearchTerm
  IN Ok(Validation(
          IfSeq(missing, <<"Criteri di ricerca mancanti">>),
          IfSeq(missing, <<"Specifica un periodo (es. \"oggi\", \"questa settimana\") o un termine di ricerca">>),
          IfSeq(missing, <<"timeRange or searchTerm">>)))

_validateUpdateIntent(schema) ==
  LET unidentified == ~Truthy(schema.eventData) \/ ~Truthy(Prop(schema.eventData, "title"))
      hasUpdates ==
        \/ Truthy(schema.timeData) /\ Truthy(Prop(schema.timeData, "startDate"))
        \/ Truthy(schema.timeData) /\ Truthy(Prop(schema.timeData, "startTime"))
        \/ Truthy(schema.eventData) /\ Truthy(Prop(schema.eventData, "description"))
        \/ Truthy(schema.eventData) /\ Truthy(Prop(schema.eventData, "location"))
  IN Ok(Validation(
          IfSeq(unidentified, <<"Non è chiaro quale evento modificare">>)
            \o IfSeq(~hasUpdates, <<"Non è chiaro cosa modificare nell'evento">>),
          IfSeq(unidentified, <<"Specifica il titolo dell'evento da modificare">>)
            \o IfSeq(~hasUpdates, <<"Specifica cosa vuoi modificare (es. data, ora, luogo)">>),
          IfSeq(unidentified, <<"event identifier">>) \o IfSeq(~hasUpdates, <<"update fields">>)))

_validateDeleteIntent(schema) ==
  LET unidentified == ~Truthy(schema.eventData) \/ ~Truthy(Prop(schema.eventData, "title"))
  IN Ok(Validation(
          IfSeq(unidentified, <<"Non è chiaro quale evento eliminare">>),
          IfSeq(unidentified, <<"Specifica il titolo dell'evento da eliminare">>),
          IfSeq(unidentified, <<"event identifier">>)))

\* IntentValidator.validate(commandSchema) at instant today: the validation result, or the
\* error raised
IntentValidator_validate(commandSchema, today) ==
  IF ~Truthy(commandSchema)
  THEN Ok(Validation(<<"Schema del comando non valido">>,
                     <<"Ripeti il comando in modo più chiaro">>, <<>>))
  ELSE IF ~Truthy(commandSchema.intent)
  THEN Ok(Validation(
            <<"Intent non riconosciuto">>,
            <<"Prova a iniziare il comando con una azione chiara come \"crea\", \"mostra\", \"modifica\" o \"elimina\"",
              "Esempio: \"Crea riunione domani alle 15\"">>,
            <<>>))
  ELSE IF commandSchema.intent = Str("create") THEN _validateCreateIntent(commandSchema, today)
  ELSE IF commandSchema.intent \in {Str("read"), Str("query")}
  THEN _validateReadIntent(commandSchema)
  ELSE IF commandSchema.intent = Str("update") THEN _validateUpdateIntent(commandSchema)
  ELSE IF commandSchema.intent = Str("delete") THEN _validateDeleteIntent(commandSchema)
  ELSE Ok(Validation(<<"Intent \"" \o commandSchema.intent.s \o "\" non supportato">>,
                     <<"I comandi supportati sono: crea, mostra, modifica, elimina">>, <<>>))

----------------------------------------------------------------------------
(* ParserFactory, ParserService and the legacy adapter                     *)

\* the configuration objects: an absent key is Undefined
FactoryConfig(useRegexFallback, useRegexOnly, llm) ==
  [useRegexFallback |-> useRegexFallback, useRegexOnly |-> useRegexOnly, llm |-> llm]
LLMConfig(apiKey) == [t |-> "object", apiKey |-> apiKey]
\* {...a, ...b}: the keys present in b override those of a
Merge(a, b) == [k \in DOMAIN a |-> IF k = "t" \/ b[k].t = "undefined" THEN a[k] ELSE b[k]]

\* the choice made on isLLMConfigured alone
ignoresRegexOnly(llmConfigured, config) == IF ~llmConfigured THEN "regex" ELSE "llm"
\* getBestParser: the method chosen
getBestParser(llmConfigured, config) ==
  IF ~llmConfigured \/ Truthy(config.useRegexOnly) THEN "regex" ELSE "llm"

\* the failure object without the error's message
FactoryFailureSilent(method, text, message) ==
  [t |-> "object", intent |-> Null, confidence |-> Undefined, eventData |-> Undefined,
   timeData |-> Undefined, queryData |-> Undefined,
   parsingMetadata |-> ParsingMetadata(method, text, <<>>, <<>>), isValid |-> FALSE]
\* the plain object the factory returns when the chosen extractor raised
FactoryFailure(method, text, message) ==
  [t |-> "object", intent |-> Null, confidence |-> Undefined, eventData |-> Undefined,
   timeData |-> Undefined, queryData |-> Undefined,
   parsingMetadata |-> ParsingMetadata(method, text, <<"Errore durante il parsing: " \o message>>,
                                       <<>>),
   isValid |-> FALSE]

\* the fallback attempted only when the intent is missing
onlyWithoutIntent(method, result, config) ==
  method = "llm" /\ ~Truthy(result.intent) /\ Truthy(config.useRegexFallback)
\* whether parseCommand re-attempts with the RegexParser after the chosen parser returned result
attemptsFallback(method, result, config) ==
  method = "llm" /\ (~Truthy(result.intent) \/ ~result.isValid) /\ Truthy(config.useRegexFallback)

\* the fallback preferred only when it is valid
onlyWhenValid(regexResult, result) == Truthy(regexResult.intent) /\ regexResult.isValid
\* whether the fallback's result replaces the primary one
prefersFallback(regexResult, result) ==
  Truthy(regexResult.intent) /\ (regexResult.isValid \/ ~result.isValid)

\* ParserFactory.parseCommand from the point where the chosen parser settled as run
\* ([threw, message, value]); fallback is the RegexParser's run on the same text
ParserFactory_settle(method, run, fallback, text, config) ==
  IF ~run.threw
  THEN IF attemptsFallback(method, run.value, config) /\ ~fallback.threw
          /\ prefersFallback(fallback.value, run.value)
       THEN fallback.value ELSE run.value
  ELSE IF method = "llm" /\ Truthy(config.useRegexFallback) /\ ~fallback.threw
  THEN fallback.value
  ELSE FactoryFailure(method, text, run.message)

\* ParserService.parseCommand: {commandSchema, validationResult}
ServiceResult(commandSchema, validationResult) ==
  [commandSchema |-> commandSchema, validationResult |-> validationResult]
ParserService_settle(commandSchema, today) ==
  LET validation == IntentValidator_validate(commandSchema, today)
  IN IF validation.threw
     THEN ServiceResult(Null,
            [isValid |-> FALSE, errors |-> <<"Errore durante l'analisi: " \o validation.message>>,
             suggestions |-> <<"Prova a riformulare il comando in modo più semplice">>,
             missingInfo |-> <<>>])
     ELSE ServiceResult(commandSchema, validation.value)

\* the exported parseCommand adapter applied to the service's result: the flattened object, or
\* the TypeError of reading a property of a container that is null or undefined
LegacyResult(action, date, time, title, description, valid, errors) ==
  [action |-> action, date |-> date, time |-> time, title |-> title, description |-> description,
   valid |-> valid, errors |-> errors]
parseCommand(result) ==
  LET commandSchema == result.commandSchema
  IN IF ~result.validationResult.isValid
     THEN Ok(LegacyResult(Null, Null, Null, Null, Null, FALSE, result.validationResult.errors))
     ELSE IF Throws(commandSchema.timeData) \/ Throws(commandSchema.eventData)
     THEN Raise(TypeError)
     ELSE Ok(LegacyResult(commandSchema.intent, Prop(commandSchema.timeData, "startDate"),
                          Prop(commandSchema.timeData, "startTime"),
                          Prop(commandSchema.eventData, "title"),
                          Prop(commandSchema.eventData, "description"), TRUE, <<>>))

----------------------------------------------------------------------------
(* The commands, the backend's answers and the instants explored           *)

\* Monday 6 January 2025, 10:00
StartInstant == 7800
MaxClock == 1
Instants == StartInstant..(StartInstant + MaxClock)

BulkTomorrow == Str("Elimina tutti gli appuntamenti di domani")
BulkToday == Str("Cancella gli appuntamenti di oggi")
ShowToday == Str("Mostra gli appuntamenti di oggi")
Texts ==
  {BulkTomorrow, BulkToday, ShowToday, Str("ricordami di chiamare Marco"), Str("ciao"),
   Str("Cancella dentista"), Str("Crea riunione domani alle 15"),
   Str("Modifica riunione a domani")}
\* what a caller of the service can pass: a text, or no string at all
Corpus == Texts \cup {Undefined}

Tomorrow == Str("2025-01-07")
LastWeek == Str("2025-01-02")
Riunione == EventObj(Str("riunione"))
\* a confidence the model gives as a percentage (95), in hundredths
PercentConfidence == 9500
\* the objects the model's answer can denote
Responses ==
  {Response(Str("delete"), Num(90), Riunione, TimeObj(Tomorrow, Undefined), Undefined),
   Response(Str("delete"), Num(90), Riunione, Undefined, Str("x")),
   Response(Str("delete"), Undefined, Riunione, Undefined, Undefined),
   Response(Undefined, Undefined, Undefined, Undefined, Undefined),
   Response(Str("create"), Num(90), Riunione, TimeObj(LastWeek, Undefined), Undefined),
   Response(Str("create"), Num(90), Riunione, TimeObj(Undefined, Str("15:00")), Undefined),
   Response(Str("create"), Str("high"), Riunione,
            TimeObj(Tomorrow, Str("2025-01-07T10:00:00")), Undefined),
   Response(Str("create"), Undefined, Null, Undefined, Undefined),
   Response(Str("update"), Num(90), Riunione, TimeObj(Tomorrow, Undefined), Undefined),
   Response(Str("query"), Undefined, Null, Undefined, QueryObj(Undefined, Str("x"))),
   Response(Str("query"), Num(90), Undefined, Undefined, Null),
   Response(Str("list"), Num(90), Undefined, Undefined, Undefined),
   Response(Str("list"), Num(PercentConfidence), Undefined, Undefined, Undefined)}
Json(object) == Outcome("content", "OK", Content(TRUE, TRUE, FALSE, object))
\* how the fetch can settle: rejected, a non-2xx status, a body without candidates, with an
\* empty list of them, without content, or with a text that holds no {...} span, one that
\* does not parse even after the repair pass, one that parses after it, one that parses
Outcomes ==
  {Outcome("network", "", NoContent), Outcome("http", "Forbidden", NoContent),
   Outcome("nocandidates", "OK", NoContent), Outcome("emptycandidates", "OK", NoContent),
   Outcome("nocontent", "OK", NoContent), Outcome("content", "OK", NoContent),
   Outcome("content", "OK", Content(TRUE, FALSE, FALSE, Null)),
   Outcome("content", "OK",
           Content(TRUE, FALSE, TRUE,
                   Response(Str("delete"), Num(90), Riunione, TimeObj(Tomorrow, Undefined),
                            Undefined)))}
  \cup {Json(object) : object \in Responses}

Invoke(method, args) ==
  CASE method = "RegExp.exec" -> SearchFrom(args[1], args[2], args[3])
    [] method = "RegexParser.parseCommand" -> RegexParser_parseCommand(args[1], args[2])
    [] method = "LLMParser.parseCommand" -> LLMParser_complete(args[1], args[2], args[3])
    [] method = "RegexParser._parseDateString" -> _parseDateString(args[1], args[2])
    [] method = "RegexParser._parseTimeString" -> _parseTimeString(args[1], args[2])
    [] method = "RegexParser._removePatterns" -> _removePatterns(args[1], args[2])
    [] method = "RegexParser._extractMeaningfulTitle" -> _extractMeaningfulTitle(args[1])
    [] method = "RegexParser._extractEventData" -> _extractEventData(args[1], args[2])
    [] method = "RegexParser._extractTimeData" -> _extractTimeData(args[1], args[2], args[3])
    [] method = "RegexParser._extractQueryData" -> _extractQueryData(args[1], args[2], args[3])
    [] method = "RegexParser._calculateConfidence" -> _calculateConfidence(args[1], args[2])
    [] method = "RegexParser._isQueryCommand" -> _isQueryCommand(args[1])
    [] method = "LLMParser._parseResponse" -> _parseResponse(args[1])
    [] method = "LLMParser._fixCommonIssues" -> _fixCommonIssues(args[1], args[2], args[3])
    [] method = "LLMParser._toCommandSchema" -> _toCommandSchema(args[1], args[2], args[3])
    [] method = "CommandSchema.validate" -> SchemaValidate(args[1])
    [] method = "Date" -> NewDate(args[1])
    [] method = "CommandSchema.toGoogleCalendarEvent" -> toGoogleCalendarEvent(args[1], args[2])
    [] method = "CommandSchema.toGoogleCalendarSearchParams" ->
         toGoogleCalendarSearchParams(args[1], args[2])

\* the two extractors over the commands, answers and instants explored
RegexRuns ==
  [text \in Corpus, at \in Instants |-> Invoke("RegexParser.parseCommand", <<text, at>>)]
LLMRuns ==
  [text \in Corpus, outcome \in Outcomes, at \in Instants |->
     Invoke("LLMParser.parseCommand", <<text, outcome, at>>)]

----------------------------------------------------------------------------
(* The state of the application                                            *)

VARIABLES
  factory,    \* the ParserFactory singleton: its config and isLLMConfigured
  llmParser,  \* the LLMParser singleton: its config and isConfigured
  clock,      \* the current instant
  events,     \* the Calendar Store: its events, as {id, summary, start, end}
  phase,      \* where the command being handled is: idle, fetching, parsed, executed
  command,    \* the text passed to parseCommand
  chosen,     \* the method getBestParser returned
  reply,      \* how the fetch of the generative backend settled
  llmRun,     \* the run of LLMParser.parseCommand, if it was called
  regexRun,   \* the run of RegexParser.parseCommand, if it was called
  parsed,     \* what ParserService.parseCommand returned
  legacy,     \* the run of the exported parseCommand adapter
  calls,      \* the Calendar Store calls of the handler, in order
  feedback,   \* the outcome the handler shows
  converted   \* the run of a conversion applied to a value on its own, if one was

vars ==
  <<factory, llmParser, clock, events, phase, command, chosen, reply, llmRun, regexRun, parsed,
    legacy, calls, feedback, converted>>

NotRun == [threw |-> FALSE, message |-> "not run", value |-> Undefined]
NoReply == Outcome("none", "", NoContent)
Event(id, summary, start, end) == [id |-> id, summary |-> summary, start |-> start, end |-> end]
\* the store holds at most MaxEvents events
MaxEvents == 2
EventIds == 1..MaxEvents
\* Tuesday 7 January at 8:00 and Wednesday 8 January at 15:00, for an hour each
InitialEvents ==
  {Event(1, "Eliminazione rifiuti", MakeDate(0, 7, 8 * MinutesPerHour),
         MakeDate(0, 7, 9 * MinutesPerHour)),
   Event(2, "Riunione di progetto", MakeDate(0, 8, 15 * MinutesPerHour),
         MakeDate(0, 8, 16 * MinutesPerHour))}

\* VITE_GEMINI_API_KEY: absent, or a key
EnvKeys == {Undefined, Str("k")}

\* module load: new LLMParser(), then new ParserFactory(), both without arguments
Init ==
  \E key \in EnvKeys :
    /\ llmParser = [config |-> LLMConfig(key), isConfigured |-> Truthy(key)]
    /\ factory = [config |-> FactoryConfig(Bool(TRUE), Bool(FALSE), LLMConfig(key)),
                  isLLMConfigured |-> Truthy(key) /\ ~Truthy(Bool(FALSE))]
    /\ clock = StartInstant
    /\ events = InitialEvents
    /\ phase = "idle"
    /\ command = Null
    /\ chosen = "none"
    /\ reply = NoReply
    /\ llmRun = NotRun
    /\ regexRun = NotRun
    /\ parsed = Null
    /\ legacy = NotRun
    /\ calls = <<>>
    /\ feedback = "none"
    /\ converted = NotRun

inPipeline == <<phase, command, chosen, reply, llmRun, regexRun, parsed, legacy>>
inHandler == <<calls, feedback, converted>>

----------------------------------------------------------------------------
(* Configuration: ParserFactory.updateConfig and the service's setters     *)

\* a configuration change lands between two steps of a command: before it, or while the
\* fetch is pending
Configurable == phase \in {"idle", "fetching"}

updateConfig(newConfig) ==
  LET config == Merge(factory.config, newConfig)
      llmConfig == Merge(llmParser.config, newConfig.llm)
      isConfigured == Truthy(llmConfig.apiKey)
  IN IF Truthy(newConfig.llm)
     THEN /\ llmParser' = [config |-> llmConfig, isConfigured |-> isConfigured]
          /\ factory' = [config |-> config,
                         isLLMConfigured |-> isConfigured /\ ~Truthy(config.useRegexOnly)]
     ELSE /\ factory' = [factory EXCEPT !.config = config]
          /\ UNCHANGED llmParser

Flags == {Undefined, Bool(TRUE), Bool(FALSE)}
LLMConfigs == {LLMConfig(Undefined), LLMConfig(Str("")), LLMConfig(Str("k"))}

\* ParserService.configure(config)
Configure(newConfig) ==
  /\ Configurable
  /\ updateConfig(newConfig)
  /\ UNCHANGED <<clock, events, inPipeline, inHandler>>

\* ParserService.setUseRegexOnly(useRegexOnly)
SetUseRegexOnly(useRegexOnly) ==
  /\ Configurable
  /\ updateConfig(FactoryConfig(Undefined, useRegexOnly, Undefined))
  /\ UNCHANGED <<clock, events, inPipeline, inHandler>>

\* ParserService.configureLLM(llmConfig)
ConfigureLLM(llmConfig) ==
  /\ Configurable
  /\ updateConfig(FactoryConfig(Undefined, Bool(FALSE), llmConfig))
  /\ UNCHANGED <<clock, events, inPipeline, inHandler>>

\* time passes
Tick ==
  /\ Configurable
  /\ clock < StartInstant + MaxClock
  /\ clock' = clock + 1
  /\ UNCHANGED <<factory, llmParser, events, inPipeline, inHandler>>

----------------------------------------------------------------------------
(* The pipeline: the exported parseCommand, ParserService.parseCommand,    *)
(* ParserFactory.parseCommand and the extractor it chose                   *)

\* whether ParserFactory.parseCommand calls the RegexParser after the chosen parser settled
\* as run
runsFallback(run, config) ==
  IF run.threw THEN chosen' = "llm" /\ Truthy(config.useRegexFallback)
  ELSE attemptsFallback(chosen', run.value, config)

\* a factory that sends the request again when the answer carried no intent
SettleOrRetry(run, regex) ==
  LET config == factory.config
      fallback == IF runsFallback(run, config) THEN regex ELSE NotRun
      commandSchema == ParserFactory_settle(chosen', run, fallback, command', config)
      result == ParserService_settle(commandSchema, clock)
      retry == phase = "fetching" /\ ~run.threw /\ ~Truthy(run.value.intent)
  IN /\ llmRun' = IF chosen' = "llm" THEN run ELSE NotRun
     /\ regexRun' = IF chosen' = "llm" THEN fallback ELSE run
     /\ parsed' = IF retry THEN parsed ELSE result
     /\ legacy' = IF retry THEN legacy ELSE parseCommand(result)
     /\ phase' = IF retry THEN "fetching" ELSE "parsed"

\* the chosen parser settled as run: the rest of the factory's parseCommand (regex is the
\* RegexParser's run on the same text, for the case the factory falls back to it), the
\* validation and the adapter, up to the value the caller receives
Settle(run, regex) ==
  LET config == factory.config
      fallback == IF runsFallback(run, config) THEN regex ELSE NotRun
      commandSchema == ParserFactory_settle(chosen', run, fallback, command', config)
      result == ParserService_settle(commandSchema, clock)
  IN /\ llmRun' = IF chosen' = "llm" THEN run ELSE NotRun
     /\ regexRun' = IF chosen' = "llm" THEN fallback ELSE run
     /\ parsed' = result
     /\ legacy' = parseCommand(result)
     /\ phase' = "parsed"

\* parseCommand(text) is called: the factory chooses the parser and calls it. The RegexParser
\* (whose run is regex) and an unconfigured LLMParser settle at once; a configured LLMParser
\* sends its request
Begin(text, regex) ==
  /\ phase = "idle"
  /\ command' = text
  /\ chosen' = getBestParser(factory.isLLMConfigured, factory.config)
  /\ IF chosen' = "llm" /\ llmParser.isConfigured
     THEN /\ phase' = "fetching"
          /\ UNCHANGED <<reply, llmRun, regexRun, parsed, legacy>>
     ELSE /\ Settle(IF chosen' = "regex" THEN regex ELSE Ok(LLMUnconfigured(text)), regex)
          /\ reply' = NoReply
  /\ calls' = <<>>
  /\ feedback' = "none"
  /\ UNCHANGED <<factory, llmParser, clock, events, converted>>

\* a caller of the service passes any value
Call(text) == Begin(text, RegexRuns[text, clock])

\* the fetch settles with outcome: the rest of LLMParser.parseCommand, then of the pipeline
Respond(outcome) ==
  /\ phase = "fetching"
  /\ reply' = outcome
  /\ UNCHANGED <<command, chosen>>
  /\ Settle(Ok(LLMRuns[command, outcome, clock]), RegexRuns[command, clock])
  /\ UNCHANGED <<factory, llmParser, clock, events, inHandler>>

\* the caller has its result
Return ==
  /\ phase = "parsed"
  /\ phase' = "idle"
  /\ command' = Null
  /\ chosen' = "none"
  /\ reply' = NoReply
  /\ llmRun' = NotRun
  /\ regexRun' = NotRun
  /\ parsed' = Null
  /\ legacy' = NotRun
  /\ UNCHANGED <<factory, llmParser, clock, events, inHandler>>

----------------------------------------------------------------------------
(* CommandInput.handleSubmit and the Calendar Store                        *)

WeekMinutes == DaysPerWeek * MinutesPerDay
MonthMinutes == DaysPerMonth * MinutesPerDay
\* getEvents(timeMin, timeMax, maxResults): the events of the window (fewer than maxResults,
\* the store holding at most MaxEvents)
getEvents(timeMin, timeMax) == {e \in events : e.end > timeMin /\ e.start < timeMax}

\* combineDateTime(date, time): the instant, or the RangeError of toISOString on an Invalid Date
combineDateTime(date, time) ==
  IF ~Truthy(date) THEN Ok(clock)
  ELSE IF ~date.valid THEN Raise(RangeError)
  ELSE IF ~Truthy(time) THEN Ok(setHours(date.at, NoonHour, 0))
  ELSE IF ~time.valid THEN Raise(RangeError)
  ELSE Ok(setHours(date.at, getHours(time.at), getMinutes(time.at)))

\* the events the update and delete branches find for a title: those of the coming month
\* whose summary contains it, whatever the case
matchingEvents(title) ==
  {e \in getEvents(clock, clock + MonthMinutes) :
     includes(toLowerCase(e.summary), toLowerCase(title.s))}

\* what one branch of the handler does: the calls it makes, the store after them, what it shows
Handled(made, store, shown) == [calls |-> made, events |-> store, feedback |-> shown]
Call1(name) == <<[name |-> name, id |-> 0]>>
Call2(name, id) == <<[name |-> "getEvents", id |-> 0], [name |-> name, id |-> id]>>

createBranch(result) ==
  LET startsAt == combineDateTime(result.date, result.time)
      free == EventIds \ {e.id : e \in events}
      id == CHOOSE n \in free : \A m \in free : n <= m
  IN IF startsAt.threw THEN Handled(<<>>, events, "create failed")
     ELSE IF free = {} THEN Handled(Call1("createEvent"), events, "create failed")
     ELSE Handled(Call1("createEvent"),
                  events \cup {Event(id, result.title.s, startsAt.value,
                                     startsAt.value + MinutesPerHour)},
                  "created")

readBranch(result) ==
  LET dated == Truthy(result.date)
      found == IF dated THEN getEvents(result.date.at, endOfDay(result.date.at))
               ELSE getEvents(clock, clock + WeekMinutes)
  IN IF dated /\ ~result.date.valid THEN Handled(<<>>, events, "search failed")
     ELSE Handled(Call1("getEvents"), events, IF found = {} THEN "none found" ELSE "found")

updateBranch(result) ==
  LET found == matchingEvents(result.title)
      eventToUpdate == CHOOSE e \in found : TRUE
      timed == Truthy(result.date) \/ Truthy(result.time)
      startsAt ==
        combineDateTime(IF Truthy(result.date) THEN result.date ELSE DateOf(eventToUpdate.start),
                        IF Truthy(result.time) THEN result.time ELSE DateOf(eventToUpdate.start))
      start == IF timed THEN startsAt.value ELSE eventToUpdate.start
      updated == Event(eventToUpdate.id, result.title.s, start,
                       start + (eventToUpdate.end - eventToUpdate.start))
  IN IF found = {} THEN Handled(Call1("getEvents"), events, "not found")
     ELSE IF Cardinality(found) > 1 THEN Handled(Call1("getEvents"), events, "multiple match")
     ELSE IF timed /\ startsAt.threw THEN Handled(Call1("getEvents"), events, "update failed")
     ELSE Handled(Call2("updateEvent", eventToUpdate.id),
                  (events \ {eventToUpdate}) \cup {updated}, "updated")

\* a delete branch that removes one of the matching events however many match
deleteAnyMatch(result) ==
  LET found == matchingEvents(result.title)
      eventToDelete == CHOOSE e \in found : TRUE
  IN IF found = {} THEN Handled(Call1("getEvents"), events, "not found")
     ELSE Handled(Call2("deleteEvent", eventToDelete.id), events \ {eventToDelete}, "deleted")

deleteBranch(result) ==
  LET found == matchingEvents(result.title)
      eventToDelete == CHOOSE e \in found : TRUE
  IN IF found = {} THEN Handled(Call1("getEvents"), events, "not found")
     ELSE IF Cardinality(found) > 1 THEN Handled(Call1("getEvents"), events, "multiple match")
     ELSE Handled(Call2("deleteEvent", eventToDelete.id), events \ {eventToDelete}, "deleted")

\* the switch on result.action, each branch inside its own try/catch
handle(result) ==
  IF ~result.valid THEN Handled(<<>>, events, "invalid")
  ELSE IF result.action = Str("create") THEN createBranch(result)
  ELSE IF result.action \in {Str("read"), Str("query")} THEN readBranch(result)
  ELSE IF result.action = Str("update") THEN updateBranch(result)
  ELSE IF result.action = Str("delete") THEN deleteBranch(result)
  ELSE Handled(<<>>, events, "not recognised")

\* what the user can type
Typed == Texts \cup {Str(""), Str("  ")}

\* handleSubmit up to the await of parseCommand(command)
HandleSubmit(text) ==
  IF trim(text.s) = ""
  THEN /\ phase = "idle"
       /\ calls' = <<>>
       /\ feedback' = "empty"
       /\ UNCHANGED <<factory, llmParser, clock, events, inPipeline, converted>>
  ELSE Begin(text, RegexRuns[text, clock])

\* handleSubmit from the point where parseCommand(command) settled: a rejection goes to the
\* outer catch, a result to the switch
Execute ==
  LET done == IF legacy.threw THEN Handled(<<>>, events, "error") ELSE handle(legacy.value)
  IN /\ phase = "parsed"
     /\ phase' = "executed"
     /\ calls' = done.calls
     /\ events' = done.events
     /\ feedback' = done.feedback
     /\ UNCHANGED <<factory, llmParser, clock, command, chosen, reply, llmRun, regexRun, parsed,
                    legacy, converted>>

\* finally: setProcessing(false); the user reads the outcome and the form is ready again
Finish ==
  /\ phase = "executed"
  /\ phase' = "idle"
  /\ command' = Null
  /\ chosen' = "none"
  /\ reply' = NoReply
  /\ llmRun' = NotRun
  /\ regexRun' = NotRun
  /\ parsed' = Null
  /\ legacy' = NotRun
  /\ calls' = <<>>
  /\ feedback' = "none"
  /\ UNCHANGED <<factory, llmParser, clock, events, converted>>

----------------------------------------------------------------------------
(* The service with its configuration, as its callers drive it             *)

Next ==
  \/ \E f \in Flags, o \in Flags, l \in LLMConfigs \cup {Undefined} :
       Configure(FactoryConfig(f, o, l))
  \/ \E b \in {Bool(TRUE), Bool(FALSE)} : SetUseRegexOnly(b)
  \/ \E l \in LLMConfigs : ConfigureLLM(l)
  \/ Tick
  \/ \E text \in Corpus : Call(text)
  \/ \E outcome \in Outcomes : Respond(outcome)
  \/ Return

Spec == Init /\ [][Next]_vars

\* the step that ends the wait for the backend: among the steps of Next, those of Respond
FetchSettles == phase = "fetching" /\ phase' = "parsed"

\* a pending fetch settles: its promise resolves or rejects, and the awaiting call resumes
SpecLive == Spec /\ WF_phase(FetchSettles)

\* the application: the form, the pipeline as the module load configured it, the store
NextUI ==
  \/ \E text \in Typed : HandleSubmit(text)
  \/ \E outcome \in Outcomes : Respond(outcome)
  \/ Execute
  \/ Finish
  \/ Tick

SpecUI == Init /\ [][NextUI]_vars

----------------------------------------------------------------------------
(* IntentValidator.validate on the schemas a CommandSchema can hold        *)

\* the field values drawn: absent (the constructor's null) or present
Titles == {Null, Str("dentista")}
Notes == {Null, Str("portare le lastre")}
Places == {Null, Str("Milano")}
\* no date; an Invalid Date; the day before; the starting instant; a minute and a day after it
StartDates ==
  {Null, InvalidDate, DateOf(StartInstant - MinutesPerDay), DateOf(StartInstant),
   DateOf(StartInstant + 1), DateOf(StartInstant + MinutesPerDay)}
StartTimes == {Null, DateOf(StartInstant + MinutesPerHour)}
TimeRanges == {Null, TimeRange(DateOf(StartInstant), DateOf(StartInstant + MinutesPerDay))}
SearchTerms == {Null, Str("dentista")}
FilterTypes == {Null, Str("meeting")}
\* the five intents and one the validator does not support
ValidatedIntents == {Str(i) : i \in Intents} \cup {Str("list")}

Schemas ==
  {CommandSchema(intent, Undefined,
                 [DefaultEventData EXCEPT !.title = title, !.description = description,
                                          !.location = location],
                 [DefaultTimeData EXCEPT !.startDate = startDate, !.startTime = startTime],
                 [DefaultQueryData EXCEPT !.timeRange = timeRange, !.searchTerm = searchTerm,
                                          !.filterType = filterType],
                 ParsingMetadata("regex", Str(""), <<>>, <<>>), FALSE) :
     intent \in ValidatedIntents, title \in Titles, description \in Notes, location \in Places,
     startDate \in StartDates, startTime \in StartTimes, timeRange \in TimeRanges,
     searchTerm \in SearchTerms, filterType \in FilterTypes}

\* the factory has returned a schema to ParserService.parseCommand, at some instant
InitValidator ==
  \E key \in EnvKeys, schema \in Schemas, at \in Instants :
    /\ llmParser = [config |-> LLMConfig(key), isConfigured |-> Truthy(key)]
    /\ factory = [config |-> FactoryConfig(Bool(TRUE), Bool(FALSE), LLMConfig(key)),
                  isLLMConfigured |-> Truthy(key) /\ ~Truthy(Bool(FALSE))]
    /\ clock = at
    /\ events = InitialEvents
    /\ phase = "returned"
    /\ command = schema.parsingMetadata.rawText
    /\ chosen = "regex"
    /\ reply = NoReply
    /\ llmRun = NotRun
    /\ regexRun = Ok(schema)
    /\ parsed = Null
    /\ legacy = NotRun
    /\ calls = <<>>
    /\ feedback = "none"
    /\ converted = NotRun

\* intentValidator.validate(commandSchema), then the adapter
Validate ==
  /\ phase = "returned"
  /\ parsed' = ParserService_settle(regexRun.value, clock)
  /\ legacy' = parseCommand(parsed')
  /\ phase' = "parsed"
  /\ UNCHANGED <<factory, llmParser, clock, events, command, chosen, reply, llmRun, regexRun,
                 inHandler>>

NextValidator ==
  \/ Validate
  \/ Return

SpecValidator == InitValidator /\ [][NextValidator]_vars

----------------------------------------------------------------------------
(* CommandSchema.toGoogleCalendarEvent and toGoogleCalendarSearchParams    *)
(* applied to the schemas a CommandSchema can hold                         *)

\* the five intents and no intent
ConvertedIntents == {Str(i) : i \in Intents} \cup {Null}
\* no date, an Invalid Date, the starting instant, the day after it
EventStarts == {Null, InvalidDate, DateOf(StartInstant), DateOf(StartInstant + MinutesPerDay)}
\* no end date, the day before the starting instant, the day after it
EndDates == {Null, DateOf(StartInstant - MinutesPerDay), DateOf(StartInstant + MinutesPerDay)}
\* no end time, or an hour and a half after the starting instant
EndTimes == {Null, DateOf(StartInstant + MinutesPerHour + 30)}
Durations == {Null, Num(30)}
\* the participants of the constructor's eventData, or those of an eventData that came
\* without the key
Participants == {Arr(<<>>), Undefined}
\* no range, a range without start, without end, with both
QueryRanges ==
  {Null, TimeRange(Undefined, DateOf(StartInstant + MinutesPerDay)),
   TimeRange(DateOf(StartInstant - MinutesPerDay), Undefined),
   TimeRange(DateOf(StartInstant - MinutesPerDay), DateOf(StartInstant + MinutesPerDay))}
Limits == {Num(DefaultLimit), Undefined}

EventSchemas ==
  {CommandSchema(intent, Undefined,
                 [DefaultEventData EXCEPT !.title = title, !.description = description,
                                          !.location = location, !.participants = participants],
                 [DefaultTimeData EXCEPT !.startDate = startDate, !.startTime = startTime,
                                         !.endDate = endDate, !.endTime = endTime,
                                         !.duration = duration],
                 Undefined, ParsingMetadata("regex", Str(""), <<>>, <<>>), FALSE) :
     intent \in ConvertedIntents, title \in Titles, description \in Notes, location \in Places,
     participants \in Participants, startDate \in EventStarts, startTime \in StartTimes,
     endDate \in EndDates, endTime \in EndTimes, duration \in Durations}
QuerySchemas ==
  {CommandSchema(intent, Undefined, Undefined, Undefined,
                 [DefaultQueryData EXCEPT !.timeRange = timeRange, !.searchTerm = searchTerm,
                                          !.limit = limit],
                 ParsingMetadata("regex", Str(""), <<>>, <<>>), FALSE) :
     intent \in ConvertedIntents, timeRange \in QueryRanges, searchTerm \in SearchTerms,
     limit \in Limits}

\* a schema is at hand at some instant; isValid is what its validate() gives
InitSchema ==
  \E key \in EnvKeys, schema \in EventSchemas \cup QuerySchemas, at \in Instants :
    /\ llmParser = [config |-> LLMConfig(key), isConfigured |-> Truthy(key)]
    /\ factory = [config |-> FactoryConfig(Bool(TRUE), Bool(FALSE), LLMConfig(key)),
                  isLLMConfigured |-> Truthy(key) /\ ~Truthy(Bool(FALSE))]
    /\ clock = at
    /\ events = InitialEvents
    /\ phase = "returned"
    /\ command = schema.parsingMetadata.rawText
    /\ chosen = "regex"
    /\ reply = NoReply
    /\ llmRun = NotRun
    /\ regexRun = Ok([schema EXCEPT !.isValid = Invoke("CommandSchema.validate", <<schema>>).value])
    /\ parsed = Null
    /\ legacy = NotRun
    /\ calls = <<>>
    /\ feedback = "none"
    /\ converted = NotRun

\* schema.toGoogleCalendarEvent()
ToEvent ==
  /\ phase = "returned"
  /\ converted' = Invoke("CommandSchema.toGoogleCalendarEvent", <<regexRun.value, clock>>)
  /\ phase' = "event"
  /\ UNCHANGED <<factory, llmParser, clock, events, command, chosen, reply, llmRun, regexRun,
                 parsed, legacy, calls, feedback>>

\* schema.toGoogleCalendarSearchParams()
ToSearchParams ==
  /\ phase = "returned"
  /\ converted' = Invoke("CommandSchema.toGoogleCalendarSearchParams", <<regexRun.value, clock>>)
  /\ phase' = "search"
  /\ UNCHANGED <<factory, llmParser, clock, events, command, chosen, reply, llmRun, regexRun,
                 parsed, legacy, calls, feedback>>

NextSchema ==
  \/ ToEvent
  \/ ToSearchParams

SpecSchema == InitSchema /\ [][NextSchema]_vars

----------------------------------------------------------------------------
(* The resolution of a weekday mention, on every day of a week             *)

\* a % b of JavaScript: the sign of the dividend
Remainder(a, b) == IF a >= 0 THEN a % b ELSE -((-a) % b)
\* \b at position i of s (between the characters i - 1 and i): a word character on one side
\* only
IsWord(s, i) == i >= 1 /\ i <= Len(s) /\ LowerOf(SubSeq(s, i, i)) \in WordChars
WordBoundary(s, i) == IsWord(s, i - 1) # IsWord(s, i)

RECURSIVE StartsWithDay(_, _)
\* the entry of the weekdays table, from the i-th on, whose name s starts with; 0 when none
StartsWithDay(s, i) ==
  IF i > Len(DAYS_MAP) THEN 0
  ELSE IF startsWith(s, DAYS_MAP[i][1]) THEN i ELSE StartsWithDay(s, i + 1)

\* the weekday branch of _extractDateTime(text) at instant today, for a text that begins with
\* the mention: the start date, null when weekdayPattern does not match
_extractDateTime(text, today) ==
  LET lower == toLowerCase(text)
      day == StartsWithDay(lower, 1)
      name == DAYS_MAP[day][1]
      after == Len(name) + 1
      rest == SubSeq(lower, after, Len(lower))
      said == IF startsWith(rest, " prossimo") THEN "prossimo"
              ELSE IF startsWith(rest, " scorso") THEN "scorso" ELSE ""
      qualified == said # "" /\ WordBoundary(lower, after + Len(said) + 1)
      found == qualified \/ WordBoundary(lower, after)
      isPast == qualified /\ said = "scorso"
      isFuture == qualified /\ said = "prossimo"
      targetDay == DAYS_MAP[day][2]
      currentDay == getDay(today)
      daysToAdd ==
        Remainder(IF isPast THEN targetDay - currentDay - DaysPerWeek
                  ELSE IF isFuture \/ targetDay <= currentDay
                  THEN targetDay - currentDay + DaysPerWeek
                  ELSE targetDay - currentDay, DaysPerWeek)
  IN IF day = 0 \/ ~WordBoundary(lower, 1) \/ ~found THEN Null
     ELSE IF daysToAdd = 0 /\ ~isPast /\ ~isFuture THEN DateOf(addDays(today, DaysPerWeek))
     ELSE DateOf(addDays(today, daysToAdd))

\* the days of the week that starts at the starting instant
WeekInstants == {StartInstant + d * MinutesPerDay : d \in 0..(DaysPerWeek - 1)}
Qualifiers == {"", " prossimo", " scorso"}
Mentions == {Str(DAYS_MAP[i][1] \o q) : i \in 1..Len(DAYS_MAP), q \in Qualifiers}

\* a mention of a weekday is to be resolved on some day
InitDates ==
  \E key \in EnvKeys, mention \in Mentions, at \in WeekInstants :
    /\ llmParser = [config |-> LLMConfig(key), isConfigured |-> Truthy(key)]
    /\ factory = [config |-> FactoryConfig(Bool(TRUE), Bool(FALSE), LLMConfig(key)),
                  isLLMConfigured |-> Truthy(key) /\ ~Truthy(Bool(FALSE))]
    /\ clock = at
    /\ events = InitialEvents
    /\ phase = "mentioned"
    /\ command = mention
    /\ chosen = "regex"
    /\ reply = NoReply
    /\ llmRun = NotRun
    /\ regexRun = NotRun
    /\ parsed = Null
    /\ legacy = NotRun
    /\ calls = <<>>
    /\ feedback = "none"
    /\ converted = NotRun

\* RegexParser._parseDateString(dateStr)
ParseDateString ==
  /\ phase = "mentioned"
  /\ converted' = Ok(DateOf(Invoke("RegexParser._parseDateString", <<command.s, clock>>)))
  /\ phase' = "parsed date"
  /\ UNCHANGED <<factory, llmParser, clock, events, command, chosen, reply, llmRun, regexRun,
                 parsed, legacy, calls, feedback>>

\* _extractDateTime(text)
ExtractDateTime ==
  /\ phase = "mentioned"
  /\ converted' = Ok(_extractDateTime(command.s, clock))
  /\ phase' = "extracted date"
  /\ UNCHANGED <<factory, llmParser, clock, events, command, chosen, reply, llmRun, regexRun,
                 parsed, legacy, calls, feedback>>

NextDates ==
  \/ ParseDateString
  \/ ExtractDateTime

SpecDates == InitDates /\ [][NextDates]_vars

----------------------------------------------------------------------------
(* The properties                                                          *)

\* the commands that combine a bulk qualifier with a period reference
BulkTexts ==
  {text \in Texts : /\ mentionsAny(toLowerCase(text.s), BulkQualifiers)
                    /\ mentionsAny(toLowerCase(text.s), PeriodReferences)}
\* the generative extractor was called for the command and the pipeline has returned
Generated == phase = "parsed" /\ chosen = "llm"
\* the backend answered with a text that denotes an object whose intent is delete
AnswersDelete ==
  /\ reply.kind = "content"
  /\ reply.content.braces /\ (reply.content.parses \/ reply.content.repairs)
  /\ reply.content.object.intent = Str("delete")
FallbackEnabled == Truthy(factory.config.useRegexFallback)
\* what ParserFactory.parseCommand returned
Returned == parsed.commandSchema
Ambiguities(schema) == schema.parsingMetadata.ambiguities

\* C1, as stated: for a bulk command and a response whose intent is delete, the schema of
\* LLMParser.parseCommand has intent query
BulkDeleteBecomesQuery ==
  (Generated /\ command \in BulkTexts /\ AnswersDelete) => llmRun.value.intent = Str("query")

\* C1: for a bulk command and a response whose intent is delete, the schema of
\* LLMParser.parseCommand never has intent delete: its intent is query, or it is unset, the
\* schema invalid and the error recorded, when the post-processing of the response raised
BulkDeleteNeverPasses ==
  (Generated /\ command \in BulkTexts /\ AnswersDelete) =>
    \/ llmRun.value.intent = Str("query")
    \/ /\ llmRun.value.intent = Null
       /\ ~llmRun.value.isValid
       /\ Len(Ambiguities(llmRun.value)) = 1
       /\ llmRun.value.parsingMetadata.method = "llm"
BulkDeleteGuarded ==
  Generated /\ command \in BulkTexts /\ AnswersDelete /\ llmRun.value.intent = Str("query")

\* C2, as stated: for a bulk command, the handler never calls deleteEvent of the store
DeletesNothingInBulk ==
  (phase = "executed" /\ command \in BulkTexts) =>
    \A i \in DOMAIN calls : calls[i].name # "deleteEvent"

\* C3, as stated: with fallback enabled, when the generative extractor returns a schema with
\* no intent the factory returns the deterministic extractor's result, of method regex
NoIntentReturnsRegex ==
  (Generated /\ FallbackEnabled /\ ~Truthy(llmRun.value.intent)) =>
    /\ ~regexRun.threw
    /\ regexRun # NotRun
    /\ Returned = regexRun.value
    /\ Returned.parsingMetadata.method = "regex"

\* C3: with fallback enabled, when the generative extractor returns a schema with no intent
\* the deterministic extractor is run; the factory returns its result, of method regex, when it
\* has an intent, and the generative schema when it has none or the extractor raised
NoIntentTriesRegex ==
  (Generated /\ FallbackEnabled /\ ~Truthy(llmRun.value.intent)) =>
    /\ regexRun # NotRun
    /\ IF ~regexRun.threw /\ Truthy(regexRun.value.intent)
       THEN Returned = regexRun.value /\ Returned.parsingMetadata.method = "regex"
       ELSE Returned = llmRun.value /\ Returned.parsingMetadata.method = "llm"
\* the generative schema has no intent and the deterministic one an intent but is invalid
NoIntentInvalidRegex ==
  /\ Generated /\ FallbackEnabled /\ ~Truthy(llmRun.value.intent)
  /\ ~regexRun.threw /\ Truthy(regexRun.value.intent) /\ ~regexRun.value.isValid
  /\ Returned = regexRun.value

\* C4: after a generative parse with fallback enabled, a schema with an intent and valid is
\* returned unchanged without running the deterministic extractor; otherwise the extractor is
\* run and its result returned exactly when it has an intent and is valid or the generative
\* schema is invalid, the generative schema being returned in every other case
FallbackRule ==
  (Generated /\ FallbackEnabled) =>
    IF Truthy(llmRun.value.intent) /\ llmRun.value.isValid
    THEN regexRun = NotRun /\ Returned = llmRun.value
    ELSE /\ regexRun # NotRun
         /\ IF /\ ~regexRun.threw
               /\ Truthy(regexRun.value.intent)
               /\ (regexRun.value.isValid \/ ~llmRun.value.isValid)
            THEN Returned = regexRun.value
            ELSE Returned = llmRun.value
\* the generative schema has an intent but is invalid, and the valid deterministic one is returned
InvalidIntentFallsBack ==
  /\ Generated /\ FallbackEnabled
  /\ Truthy(llmRun.value.intent) /\ ~llmRun.value.isValid
  /\ ~regexRun.threw /\ regexRun # NotRun /\ regexRun.value.isValid
  /\ Returned = regexRun.value

\* the failure result: intent unset, invalid, the error's message in ambiguities
IsFailure(schema, method, message) ==
  /\ schema.intent = Null
  /\ schema.isValid = FALSE
  /\ schema.parsingMetadata.method = method
  /\ Ambiguities(schema) = <<"Errore durante il parsing: " \o message>>
\* what the factory returns for the command when the extractor of the given method raises
OnThrow(method) ==
  ParserFactory_settle(method, Raise(TypeError), RegexRuns[command, clock], command,
                       factory.config)

\* C5: when the chosen extractor raises, the factory returns the deterministic extractor's
\* result if the method is llm, fallback is enabled and that extractor does not raise too,
\* and in every other case the failure result; nothing is raised to the caller
ThrowTakesFallback ==
  phase = "parsed" =>
    /\ (chosen = "regex" /\ regexRun.threw) =>
          IsFailure(Returned, "regex", regexRun.message) /\ ~parsed.validationResult.isValid
    /\ IsFailure(OnThrow("regex"), "regex", TypeError)
    /\ IF FallbackEnabled /\ ~RegexRuns[command, clock].threw
       THEN OnThrow("llm") = RegexRuns[command, clock].value
       ELSE IsFailure(OnThrow("llm"), "llm", TypeError)
\* the deterministic extractor was chosen and raised
RegexThrew == phase = "parsed" /\ chosen = "regex" /\ regexRun.threw

\* the fetch failed, or the text of the answer holds no object that parses, even repaired
BackendFailed ==
  \/ reply.kind \in {"network", "http", "nocandidates", "emptycandidates", "nocontent"}
  \/ /\ reply.kind = "content"
     /\ ~(reply.content.braces /\ (reply.content.parses \/ reply.content.repairs))

\* C6, as stated: every failure inside LLMParser.parseCommand yields a schema of method llm
\* with intent unset and the error message in ambiguities
FailureLeavesIntentUnset ==
  (Generated /\ BackendFailed) =>
    /\ ~llmRun.threw
    /\ llmRun.value.parsingMetadata.method = "llm"
    /\ llmRun.value.intent = Null
    /\ Len(Ambiguities(llmRun.value)) > 0

\* C7, as stated: the service and the adapter return a structured result for every text and
\* every outcome of the extractors and the backend: the validator raises for no schema the
\* factory returns and no exception reaches the caller of the adapter
AlwaysStructured ==
  phase = "parsed" =>
    /\ ~IntentValidator_validate(Returned, clock).threw
    /\ ~legacy.threw
    /\ DOMAIN legacy.value
         = {"action", "date", "time", "title", "description", "valid", "errors"}

\* the schema handed to the validator, once validated
Validated == regexRun.value
IsValidated == phase = "parsed" /\ chosen = "regex" /\ ~regexRun.threw
\* the completeness rule per intent, as the table states it
TableRule(schema) ==
  LET title == Truthy(schema.eventData.title)
      date == Truthy(schema.timeData.startDate)
      time == Truthy(schema.timeData.startTime)
  IN CASE schema.intent = Str("create") -> title /\ (date \/ time)
       [] schema.intent = Str("update") ->
            title /\ (date \/ time \/ Truthy(schema.eventData.description)
                        \/ Truthy(schema.eventData.location))
       [] schema.intent = Str("delete") -> title /\ (date \/ time)
       [] OTHER -> \/ Truthy(schema.queryData.timeRange)
                   \/ Truthy(schema.queryData.searchTerm)
                   \/ Truthy(schema.queryData.filterType)
PastCreate(schema, today) ==
  /\ schema.intent = Str("create")
  /\ schema.timeData.startDate.t = "date"
  /\ schema.timeData.startDate.valid
  /\ schema.timeData.startDate.at < today

\* C8, as stated: for the five intents the validator's isValid is the table's completeness
\* rule, but for a create whose date is before now
ValidatorFollowsTable ==
  (IsValidated /\ Validated.intent \in {Str(i) : i \in Intents}) =>
    parsed.validationResult.isValid
      = (TableRule(Validated) /\ ~PastCreate(Validated, clock))

\* C9: a create whose startDate is strictly before the instant of validation is invalid, with
\* a past-date error apart from the missing-title and missing-date errors, which is the only
\* error when title and date are both present
PastCreateRejected ==
  (IsValidated /\ PastCreate(Validated, clock)) =>
    LET errors == parsed.validationResult.errors
        given == Truthy(Validated.eventData.title)
    IN /\ ~parsed.validationResult.isValid
       /\ \E i \in DOMAIN errors : errors[i] = PastDateError
       /\ PastDateError \notin {MissingTitleError, MissingDateError}
       /\ \A i \in DOMAIN errors : errors[i] # MissingDateError
       /\ given => errors = <<PastDateError>>
       /\ ~given => errors = <<MissingTitleError, PastDateError>>
\* a complete create dated earlier on the day of validation is rejected for its date alone
PastCreateComplete ==
  /\ IsValidated /\ PastCreate(Validated, clock)
  /\ Truthy(Validated.eventData.title)
  /\ DayOf(Validated.timeData.startDate.at) = DayOf(clock)
  /\ parsed.validationResult.errors = <<PastDateError>>

NoKey == ~Truthy(llmParser.config.apiKey)
RegexOnly == Truthy(factory.config.useRegexOnly)

\* C10: in every state that construction and the configuration calls reach, when the
\* LLMParser has no API key or useRegexOnly is set, getBestParser chooses the RegexParser and
\* parseCommand settles with it without calling the LLMParser or the backend
RegexWhenUnconfigured ==
  [][(phase = "idle" /\ phase' # "idle" /\ (NoKey \/ RegexOnly)) =>
       /\ getBestParser(factory.isLLMConfigured, factory.config) = "regex"
       /\ chosen' = "regex"
       /\ phase' = "parsed"
       /\ llmRun' = NotRun
       /\ reply' = NoReply
       /\ regexRun' = RegexRuns[command', clock]]_vars
\* the RegexParser settled a command while a key was set, isLLMConfigured true and
\* useRegexOnly set
RegexOnlyWithKey ==
  /\ phase = "parsed" /\ chosen = "regex"
  /\ ~NoKey /\ RegexOnly /\ factory.isLLMConfigured

\* C11, as stated: after any sequence of configuration calls isLLMConfigured says that the
\* merged LLM configuration holds an API key and useRegexOnly is false
FlagFollowsConfig ==
  factory.isLLMConfigured = (~NoKey /\ ~RegexOnly)

\* RegexParser.getConfidence(text) and LLMParser.getConfidence(text), in hundredths
ConfidenceThreshold == 60
ConfiguredConfidence == 90
RegexParser_getConfidence(text, today) == RegexRuns[text, today].value.confidence.n
LLMParser_getConfidence(isConfigured) == IF isConfigured THEN ConfiguredConfidence ELSE 0
\* the rule of selection by confidence
ByConfidence(text, today) ==
  /\ RegexParser_getConfidence(text, today) >= ConfidenceThreshold
  /\ \/ RegexParser_getConfidence(text, today) >= LLMParser_getConfidence(llmParser.isConfigured)
     \/ Truthy(factory.config.useRegexFallback)

\* C12, as stated: with the backend configured and useRegexOnly off, the factory chooses the
\* RegexParser exactly when its confidence meets the threshold and is not below the
\* LLMParser's or the fallback flag is set, and the LLMParser in every other case
ChoosesByConfidence ==
  [][(phase = "idle" /\ phase' # "idle" /\ factory.isLLMConfigured /\ ~RegexOnly
        /\ command'.t = "string") =>
       (chosen' = IF ByConfidence(command', clock) THEN "regex" ELSE "llm")]_vars

\* what the parse in flight returns under config if the fetch settles with outcome
InFlight(config, outcome) ==
  ParserFactory_settle("llm", Ok(LLMRuns[command, outcome, clock]), RegexRuns[command, clock],
                       command, config)

\* C13, as stated: a configuration update while a parse is suspended on the backend changes
\* neither the extractor chosen nor what it returns for any outcome of the request
SnapshotDuringFetch ==
  [][(phase = "fetching" /\ phase' = "fetching") =>
       /\ chosen' = chosen
       /\ \A outcome \in Outcomes :
            InFlight(factory'.config, outcome) = InFlight(factory.config, outcome)]_vars

ByExtractors ==
  {run.value : run \in {run \in {llmRun, regexRun} : run # NotRun /\ ~run.threw}}
\* ... and what ParserFactory.parseCommand returned
Produced == ByExtractors \cup (IF Returned = Null THEN {} ELSE {Returned})

ContainersPresent ==
  (phase = "parsed" /\ Returned # Null) =>
    /\ ~IsNullish(Returned.eventData)
    /\ ~IsNullish(Returned.timeData)
    /\ ~IsNullish(Returned.queryData)

\* C17, as stated: in every schema a parser returns queryData.limit is the default, no text
\* and no answer here supplying one
LimitIsDefault ==
  phase = "parsed" =>
    \A schema \in ByExtractors :
      /\ schema.queryData.t = "object"
      /\ schema.queryData.limit = Num(DefaultLimit)

\* C18, as stated: in every schema a parser or the factory returns confidence is a number
\* between 0 and 1 (0 and FullConfidence in hundredths)
ConfidenceInRange ==
  phase = "parsed" =>
    \A schema \in Produced :
      /\ schema.confidence.t = "number"
      /\ schema.confidence.n \in 0..FullConfidence

\* C19, as stated: the schema ParserService.parseCommand returns carries the validator's
\* verdict in isValid
SchemaCarriesVerdict ==
  (phase = "parsed" /\ Returned # Null) =>
    Returned.isValid = parsed.validationResult.isValid

\* C20, as stated: a per-intent validator returns as many suggestions as errors
SuggestionPerError ==
  (IsValidated /\ Validated.intent \in {Str(i) : i \in Intents}) =>
    Len(parsed.validationResult.suggestions) = Len(parsed.validationResult.errors)

\* the schema a conversion was applied to
Converted == regexRun.value
EventIntents == {Str("create"), Str("update")}
SearchIntents == {Str("read"), Str("query")}

\* C21: toGoogleCalendarEvent throws its intent error, and returns no record, for every schema
\* whose intent is not create or update, and toGoogleCalendarSearchParams does for every
\* schema whose intent is not read or query
WrongIntentThrows ==
  /\ (phase = "event" /\ Converted.intent \notin EventIntents) =>
       converted = Raise(EventIntentError)
  /\ (phase = "search" /\ Converted.intent \notin SearchIntents) =>
       converted = Raise(SearchIntentError)
\* a delete schema with title, date and time was handed to toGoogleCalendarEvent
DeleteNotConverted ==
  /\ phase = "event" /\ Converted.intent = Str("delete")
  /\ Truthy(Converted.eventData.title)
  /\ Converted.timeData.startDate = DateOf(StartInstant)
  /\ Truthy(Converted.timeData.startTime)
  /\ converted.threw

\* the instant an ISO string of a record denotes when read back
ReadBack(v) == Invoke("Date", <<v.s>>)
\* a valid create schema that states neither an end nor a duration was converted
PlainCreate ==
  /\ phase = "event" /\ Converted.intent = Str("create") /\ Converted.isValid
  /\ Converted.timeData.endDate = Null /\ Converted.timeData.endTime = Null
  /\ Converted.timeData.duration = Null
\* the record ends the default duration after it starts
EndsAfterDefault ==
  /\ ReadBack(converted.value.start).valid
  /\ ReadBack(converted.value.end) =
       DateOf(ReadBack(converted.value.start).at + DefaultDuration)

ExplicitEnd ==
  _combineDateTime(Converted.timeData.endDate, Converted.timeData.endTime, clock)
ExplicitStart ==
  _combineDateTime(Converted.timeData.startDate, Converted.timeData.startTime, clock)

\* C23, as stated: for every create or update schema toGoogleCalendarEvent returns a record
\* whose end is not before its start, an explicit end before the start being replaced by the
\* start plus the default duration
EndNotBeforeStart ==
  (phase = "event" /\ Converted.intent \in EventIntents) =>
    /\ ~converted.threw
    /\ ReadBack(converted.value.end).at >= ReadBack(converted.value.start).at
    /\ (/\ Truthy(Converted.timeData.endDate) /\ Truthy(Converted.timeData.endTime)
        /\ ExplicitStart.valid /\ ExplicitEnd.valid /\ ExplicitEnd.at < ExplicitStart.at) =>
         EndsAfterDefault

\* C24, as stated: toGoogleCalendarSearchParams sets timeMin to the current instant for every
\* read or query schema without a range start, the range being absent or lacking its start
NoStartMeansNow ==
  (/\ phase = "search" /\ Converted.intent \in SearchIntents
   /\ ~(Truthy(Converted.queryData.timeRange) /\ Truthy(Converted.queryData.timeRange.start))) =>
    /\ ~converted.threw
    /\ converted.value.timeMin = Str(toISOString(clock))

\* the instants explored that fall on the day of the current one
SameDay == {at \in Instants : DayOf(at) = DayOf(clock)}

\* C25, as stated: what an extractor returned for the command is what it returns for the same
\* command (and the same answer of the backend) at every other instant of the same day
SameDaySameSchema ==
  phase = "parsed" =>
    \A at \in SameDay :
      /\ (chosen = "regex" \/ regexRun # NotRun) => RegexRuns[command, at] = regexRun
      /\ (chosen = "llm" /\ reply.kind # "none") =>
           LLMRuns[command, reply, at] = llmRun.value

\* the reference score, in hundredths: the bonus for the fields present, capped at 40
FieldBonus(schema) ==
  LET bonus == _calculateConfidence("", [schema EXCEPT !.parsingMetadata.ambiguities = <<>>])
               - (IF Truthy(schema.intent) THEN 50 ELSE 0)
  IN IF bonus > 40 THEN 40 ELSE bonus
ReferenceScore(text, schema) ==
  IF ~Truthy(schema.intent) THEN 0
  ELSE Clamp(50 + FieldBonus(schema)
             - (IF Len(text) > LongTextLength THEN 10 ELSE 0)
             - (IF countSpaces(text, 1) + 1 > ManyWords THEN 5 ELSE 0)
             - 10 * Len(schema.parsingMetadata.ambiguities))

\* C26, as stated: the confidence of the schema the RegexParser returns is the reference score
\* of the text and the schema
ConfidenceIsReference ==
  (phase = "parsed" /\ regexRun # NotRun /\ ~regexRun.threw) =>
    regexRun.value.confidence = Num(ReferenceScore(command.s, regexRun.value))

\* a weekday was mentioned bare or with 'prossimo', and resolved
ForwardMention ==
  /\ phase \in {"parsed date", "extracted date"}
  /\ ~endsWith(command.s, " scorso")
MentionedDay == DAYS_MAP[StartsWithDay(command.s, 1)][2]
DaysAhead == DayOf(converted.value.at) - DayOf(clock)

\* C27, as stated: a weekday given bare or with 'prossimo' resolves to that weekday between 1
\* and 7 days after today, and a bare mention of today's weekday to 7 days after today
WeekdayAdvances ==
  ForwardMention =>
    /\ converted.value.t = "date"
    /\ DaysAhead \in 1..DaysPerWeek
    /\ getDay(converted.value.at) = MentionedDay
    /\ (MentionedDay = getDay(clock) /\ ~endsWith(command.s, " prossimo")) =>
         DaysAhead = DaysPerWeek

\* ParserFactory.parseCommand returned a create schema whose start date is on the current day
CreateToday ==
  /\ phase = "parsed" /\ Returned # Null /\ Returned.intent = Str("create")
  /\ Returned.timeData.t = "object"
  /\ Returned.timeData.startDate.t = "date" /\ Returned.timeData.startDate.valid
  /\ DayOf(Returned.timeData.startDate.at) = DayOf(clock)
\* the validator, reading the clock at instant at, reports the schema's date as past
FlaggedPast(schema, at) ==
  LET errors == IntentValidator_validate(schema, at).value.errors
  IN \E i \in DOMAIN errors : errors[i] = PastDateError

\* C28, as stated: a create whose start date is on the current day is not reported as past by
\* the validator, at whatever instant from the extraction on it reads the clock
TodayIsNotPast ==
  CreateToday => \A at \in Instants : at >= clock => ~FlaggedPast(Returned, at)

----------------------------------------------------------------------------
(* The hour correction, over answers that carry a start and an end time    *)

\* texts of a create command: without an hour, with the hour of the start, with both hours
TimedTexts ==
  {Str("Crea riunione domani"), Str("Crea riunione domani alle 15"),
   Str("Crea riunione domani dalle 15 alle 16"), Str("Crea riunione domani alle 9:30"),
   Str("Crea riunione domani alle 3 del pomeriggio"),
   Str("Crea riunione domani dalle 10 alle 11:30")}
\* the hours the model's answer gives to the start, and the lengths it gives to the event
AnsweredHours == {9, 10, 15}
AnsweredLengths == {MinutesPerHour \div 2, MinutesPerHour, 2 * MinutesPerHour}
\* the answer: a create for tomorrow from the hour given, of the length given
TimedResponse(hour, length) ==
  LET start == setHours(addDays(StartInstant, 1), hour, 0)
  IN Response(Str("create"), Num(90), Riunione,
              [TimeObj(Tomorrow, Str(toISOString(start))) EXCEPT
                 !.endTime = Str(toISOString(start + length))],
              Undefined)

InitFix ==
  \E key \in EnvKeys, text \in TimedTexts, hour \in AnsweredHours,
     length \in AnsweredLengths :
    /\ llmParser = [config |-> LLMConfig(key), isConfigured |-> Truthy(key)]
    /\ factory = [config |-> FactoryConfig(Bool(TRUE), Bool(FALSE), LLMConfig(key)),
                  isLLMConfigured |-> Truthy(key) /\ ~Truthy(Bool(FALSE))]
    /\ clock = StartInstant
    /\ events = InitialEvents
    /\ phase = "answered"
    /\ command = text
    /\ chosen = "llm"
    /\ reply = Json(TimedResponse(hour, length))
    /\ llmRun = NotRun
    /\ regexRun = NotRun
    /\ parsed = Null
    /\ legacy = NotRun
    /\ calls = <<>>
    /\ feedback = "none"
    /\ converted = NotRun

\* LLMParser._fixCommonIssues(response, originalText) on the answer's object
FixCommonIssues ==
  /\ phase = "answered"
  /\ converted' = Invoke("LLMParser._fixCommonIssues", <<reply.content.object, command, clock>>)
  /\ phase' = "fixed"
  /\ UNCHANGED <<factory, llmParser, clock, events, command, chosen, reply, llmRun, regexRun,
                 parsed, legacy, calls, feedback>>

NextFix == FixCommonIssues

SpecFix == InitFix /\ [][NextFix]_vars

\* the instant a time string of an answer denotes
Denoted(v) == Invoke("Date", <<v.s>>).at
\* the answer carried an end time after its start time
EndWasAfterStart ==
  Denoted(reply.content.object.timeData.endTime)
    > Denoted(reply.content.object.timeData.startTime)

\* C29, as stated: when the answer carries an end time after its start time, the hour correction
\* leaves the end time after the start time
CorrectionKeepsOrder ==
  (phase = "fixed" /\ EndWasAfterStart /\ ~converted.threw)
    => Denoted(converted.value.timeData.endTime) > Denoted(converted.value.timeData.startTime)

\* the calls of a submit that change the store
Mutations(made) == {i \in DOMAIN made : made[i].name \in {"deleteEvent", "updateEvent"}}
\* the handler took the update or the delete branch
ByTitle ==
  /\ ~legacy.threw /\ legacy.value.valid
  /\ legacy.value.action \in {Str("update"), Str("delete")}

\* C30: a submit calls deleteEvent or updateEvent at most once, and only on the one listed event
\* that matches the parsed title; with no match or with several the store is left as it was
\* and the outcome is only reported
MutatesSingleMatchOnly ==
  [][(phase = "parsed" /\ phase' = "executed") =>
       /\ Cardinality(Mutations(calls')) <= 1
       /\ \A i \in Mutations(calls') :
            /\ ByTitle
            /\ matchingEvents(legacy.value.title) = {e \in events : e.id = calls'[i].id}
            /\ Cardinality(matchingEvents(legacy.value.title)) = 1
       /\ (ByTitle /\ Cardinality(matchingEvents(legacy.value.title)) # 1) =>
            /\ events' = events
            /\ feedback' \in {"not found", "multiple match"}]_vars
\* a delete was executed on the single event that matched
SingleMatchDeleted ==
  /\ phase = "executed" /\ feedback = "deleted"
  /\ \E i \in DOMAIN calls : calls[i].name = "deleteEvent"
====
